---- MODULE Spec2Model ----
(***************************************************************************)
(* rfa2json: locating, decoding, repairing and parsing the XML document    *)
(* embedded in a binary .rfa container, and building the entry from the    *)
(* parsed document (src/rfa2json/extract).                                 *)
(*                                                                         *)
(* Byte strings and texts are TLA+ strings, one character per byte or per  *)
(* code point.  A byte below 0x80 is written as its ASCII character.  The  *)
(* bytes and code points outside ASCII that the model uses are written     *)
(* with stand-in characters that occur nowhere else:                       *)
(*                                                                         *)
(*     "@"   byte 0xC3   and the character U+00C3 (A tilde)                *)
(*     "#"   byte 0xA9   and the character U+00A9 (copyright sign)         *)
(*     "~"   byte 0xFF   and the character U+00FF (y diaeresis)            *)
(*     "^"   byte 0x8A   and the character U+008A (a C1 control)           *)
(*     "}"   byte 0xB7   and the character U+00B7 (middle dot)             *)
(*     "%"   the character U+00E9 (e acute):  UTF-8 of C3 A9               *)
(*     "!"   the character U+00CA (E circumflex): UTF-8 of C3 8A           *)
(*     "*"   the character U+00F7 (division sign): UTF-8 of C3 B7          *)
(*     "$"   the character U+0160 (S caron):  CP1252 of 8A                 *)
(*     "|"   a UTF-16 code unit whose high byte is not zero                *)
(*     "\f"  the control character 0x0C (form feed)                        *)
(*                                                                         *)
(* A byte and the character with the same number share a stand-in, which   *)
(* is what Latin-1 decoding does: byte n becomes code point n.             *)
(*                                                                         *)
(* The stand-ins are those of the blobs and texts of the locator and the   *)
(* parser.  The tags, attributes and texts of element trees, the entries   *)
(* built from them and the JSON documents are plain ASCII.                 *)
(***************************************************************************)
EXTENDS Integers, Sequences, FiniteSets, TLC

\* ------------------------------------------------------------------------
\* Strings: Python's indexing, str.find, str.replace, str.startswith
\* ------------------------------------------------------------------------

\* the character s[i-1] of Python (positions here are 1-based); "" past the end
CharAt(s, i) == IF i >= 1 /\ i <= Len(s) THEN SubSeq(s, i, i) ELSE ""

\* s[i-1:] of Python
From(s, i) == IF i > Len(s) THEN "" ELSE SubSeq(s, i, Len(s))

\* s[i-1:j] of Python: the characters at positions i..j
Slice(s, i, j) == IF j < i THEN "" ELSE SubSeq(s, i, j)

\* s[i-1:].startswith(lit)
StartsWithAt(s, i, lit) ==
    /\ i >= 1
    /\ i + Len(lit) - 1 <= Len(s)
    /\ SubSeq(s, i, i + Len(lit) - 1) = lit

CharSet(s) == {SubSeq(s, i, i) : i \in 1..Len(s)}

\* the first position >= i where lit occurs in s, 0 when there is none
FindFrom(s, lit, i) ==
    LET last == Len(s) - Len(lit) + 1
        Hit(p) == SubSeq(s, p, p + Len(lit) - 1) = lit
    IN  IF \E p \in i..last : Hit(p)
        THEN CHOOSE p \in i..last : Hit(p) /\ \A q \in i..(p - 1) : ~Hit(q)
        ELSE 0

\* lit in s
Contains(s, lit) == FindFrom(s, lit, 1) # 0

\* the first position >= i of a character of the set cs, Len(s)+1 when none
SkipTo(s, cs, i) ==
    IF \E p \in i..Len(s) : SubSeq(s, p, p) \in cs
    THEN CHOOSE p \in i..Len(s) :
             SubSeq(s, p, p) \in cs /\ \A q \in i..(p - 1) : SubSeq(s, q, q) \notin cs
    ELSE Len(s) + 1

\* the first position >= i of a character outside cs, Len(s)+1 when none
SkipWhile(s, cs, i) ==
    IF \E p \in i..Len(s) : SubSeq(s, p, p) \notin cs
    THEN CHOOSE p \in i..Len(s) :
             SubSeq(s, p, p) \notin cs /\ \A q \in i..(p - 1) : SubSeq(s, q, q) \in cs
    ELSE Len(s) + 1

\* s.replace(old, new): every non-overlapping occurrence, leftmost first
RECURSIVE ReplaceFrom(_, _, _, _)
ReplaceAt(s, old, new, i, p) ==
    IF p = 0 THEN From(s, i)
    ELSE Slice(s, i, p - 1) \o new \o ReplaceFrom(s, old, new, p + Len(old))

ReplaceFrom(s, old, new, i) == ReplaceAt(s, old, new, i, FindFrom(s, old, i))

Replace(s, old, new) == ReplaceFrom(s, old, new, 1)

\* ------------------------------------------------------------------------
\* Character classes
\* ------------------------------------------------------------------------

AsciiLetters == CharSet("abcdefghijklmnopqrstuvwxyzABCDEFGHIJKLMNOPQRSTUVWXYZ")
Digits == CharSet("0123456789")

\* the bytes >= 0x80 of the model (see the table above)
HighBytes == {"@", "#", "~", "^", "}"}

\* \w of a bytes pattern: ASCII letters, digits and the underscore only
ByteWord == AsciiLetters \cup Digits \cup {"_"}

\* \s of a bytes pattern
ByteSpace == {" ", "\n", "\t", "\r", "\f"}

\* the letters outside ASCII: U+00C3, U+00FF, U+00E9, U+00CA, U+0160 and the
\* UTF-16 code units (U+00A9, U+00B7 and U+00F7 are symbols and U+008A is a
\* control: no letters)
HighLetters == {"@", "~", "%", "!", "$", "|"}

\* \w of a str pattern: Unicode letters, digits and the underscore
StrWord == AsciiLetters \cup Digits \cup {"_"} \cup HighLetters

\* [\x00-\x08\x0B\x0C\x0E-\x1F\x7F]: the control characters repair strips
ControlChars == {"\f"}

\* XML 1.0: S, NameStartChar, NameChar, and the characters that are no Char
XmlSpace == {" ", "\n", "\t", "\r"}
NameStartChars == AsciiLetters \cup {"_"} \cup (HighLetters \ {"|"})
NameChars == NameStartChars \cup Digits \cup {"-", ".", "}"}
NotXmlChars == {"\f"}

\* ------------------------------------------------------------------------
\* bytes.decode(encoding): [ok |-> FALSE] stands for UnicodeDecodeError
\* ------------------------------------------------------------------------

DecodeError == [ok |-> FALSE, text |-> ""]
Decoded(t) == [ok |-> TRUE, text |-> t]

\* UTF-8: an ASCII byte is its character; the lead byte C3 takes one
\* continuation byte (A9 gives U+00E9, 8A gives U+00CA, B7 gives U+00F7); a
\* continuation byte without a lead byte, a lead byte without a continuation
\* byte and the byte FF are errors
RECURSIVE utf8_from(_, _)
utf8_join(head, rest) ==
    IF rest.ok THEN Decoded(head \o rest.text) ELSE DecodeError

\* b from position i, where p is the first byte >= 0x80 at or after i
utf8_at(b, i, p) ==
    IF p > Len(b) THEN Decoded(From(b, i))
    ELSE IF StartsWithAt(b, p, "@#")
    THEN utf8_join(Slice(b, i, p - 1) \o "%", utf8_from(b, p + 2))
    ELSE IF StartsWithAt(b, p, "@^")
    THEN utf8_join(Slice(b, i, p - 1) \o "!", utf8_from(b, p + 2))
    ELSE IF StartsWithAt(b, p, "@}")
    THEN utf8_join(Slice(b, i, p - 1) \o "*", utf8_from(b, p + 2))
    ELSE DecodeError

utf8_from(b, i) == utf8_at(b, i, SkipTo(b, HighBytes, i))

decode_utf8(b) == utf8_from(b, 1)

\* UTF-16 without a byte order mark: little endian, two bytes per code unit;
\* an odd number of bytes is an error ("truncated data").  No byte of the model
\* is 0x00 or 0xD8..0xDF, so every code unit is a character outside ASCII and
\* none is a surrogate
RECURSIVE utf16_units(_)
utf16_units(n) ==
    IF n = 0 THEN "" ELSE IF n = 1 THEN "|"
    ELSE utf16_units(n \div 2) \o utf16_units(n - n \div 2)

decode_utf16(b) ==
    IF Len(b) % 2 = 1 THEN DecodeError ELSE Decoded(utf16_units(Len(b) \div 2))

\* Latin-1: byte n is code point n; never an error
decode_latin1(b) == Decoded(b)

\* CP1252: as Latin-1 except in 0x80..0x9F, where 0x8A is U+0160; the five
\* undefined bytes (0x81 0x8D 0x8F 0x90 0x9D) are not bytes of the model
decode_cp1252(b) == Decoded(Replace(b, "^", "$"))

decode(b, encoding) ==
    CASE encoding = "utf-8" -> decode_utf8(b)
      [] encoding = "utf-16" -> decode_utf16(b)
      [] encoding = "latin-1" -> decode_latin1(b)
      [] encoding = "cp1252" -> decode_cp1252(b)

\* a variant with Latin-1 first, for which C6_FirstEncodingThatParses fails
ENCODINGS_latin1_first == <<"latin-1", "utf-8", "utf-16", "cp1252">>

\* a variant with CP1252 before Latin-1, for which C29_FirstDecodingUsed
\* fails
ENCODINGS_cp1252_before_latin1 == <<"utf-8", "utf-16", "cp1252", "latin-1">>

\* for encoding in ["utf-8", "utf-16", "latin-1", "cp1252"]
ENCODINGS == <<"utf-8", "utf-16", "latin-1", "cp1252">>

\* ------------------------------------------------------------------------
\* ET.fromstring(text): TRUE when the text parses, FALSE for ET.ParseError.
\* The parser is expat with namespace processing; given a str it ignores the
\* encoding the declaration names.  The texts of the model hold no comment,
\* no CDATA section, no DOCTYPE, no character reference and no prefixed name
\* ------------------------------------------------------------------------

XML_DECL_PLAIN == "<?xml version=\"1.0\"?>"
XML_DECL_UTF8 == "<?xml version=\"1.0\" encoding=\"UTF-8\"?>"

PredefinedEntities == {"amp", "lt", "gt", "apos", "quot"}

\* s has "&" at p and the name after it ends before q: the position after the
\* reference's ";", 0 when it is no reference to a predefined entity
EntityClose(s, p, q) ==
    IF CharAt(s, q) = ";" /\ Slice(s, p + 1, q - 1) \in PredefinedEntities
    THEN q + 1 ELSE 0

EntityEnd(s, p) == EntityClose(s, p, SkipWhile(s, NameChars, p + 1))

\* the position of the quote that closes an attribute value, 0 when the value
\* holds "<", a bare "&" or a forbidden character, or never closes
RECURSIVE AttValueEnd(_, _, _)
AttValueNext(s, p, quote, c, e) ==
    IF c = quote THEN p
    ELSE IF c = "<" \/ c \in NotXmlChars \/ (c = "&" /\ e = 0) THEN 0
    ELSE AttValueEnd(s, IF c = "&" THEN e ELSE p + 1, quote)

AttValueEnd(s, p, quote) ==
    IF p > Len(s) THEN 0
    ELSE AttValueNext(s, p, quote, SubSeq(s, p, p), EntityEnd(s, p))

\* a token of the document: kind is "open" (start tag), "empty" (empty-element
\* tag), "close" (end tag), "entity", "space" (white space only), "text" or
\* "bad"; name is the element's name; next is the position after the token
Token(kind, name, next) == [kind |-> kind, name |-> name, next |-> next]
BadToken == Token("bad", "", 0)

\* the rest of a start tag named name from p, just after the name or after an
\* attribute; q is the first position at or after p that holds no white space
RECURSIVE StartTagRest(_, _, _, _)
AttrClosed(s, name, close) ==
    IF close = 0 THEN BadToken ELSE StartTagRest(s, name, close + 1,
                                            SkipWhile(s, XmlSpace, close + 1))

AttrValue(s, name, v) ==
    IF CharAt(s, v) \in {"\"", "'"}
    THEN AttrClosed(s, name, AttValueEnd(s, v + 1, CharAt(s, v)))
    ELSE BadToken

AttrEquals(s, name, e) ==
    IF CharAt(s, e) = "=" THEN AttrValue(s, name, SkipWhile(s, XmlSpace, e + 1))
    ELSE BadToken

StartTagRest(s, name, p, q) ==
    IF CharAt(s, q) = ">" THEN Token("open", name, q + 1)
    ELSE IF StartsWithAt(s, q, "/>") THEN Token("empty", name, q + 2)
    ELSE IF q > p /\ CharAt(s, q) \in NameStartChars
    THEN AttrEquals(s, name, SkipWhile(s, XmlSpace, SkipWhile(s, NameChars, q)))
    ELSE BadToken

\* a start tag at p, whose name ends before q
StartTag(s, p, q) ==
    StartTagRest(s, Slice(s, p + 1, q - 1), q, SkipWhile(s, XmlSpace, q))

\* an end tag at p, whose name ends before q; g is where its ">" must be
EndTag(s, p, q, g) ==
    IF q > p + 2 /\ CharAt(s, g) = ">"
    THEN Token("close", Slice(s, p + 2, q - 1), g + 1) ELSE BadToken

\* character data from p to before q, the next markup character
CharData(s, p, q) ==
    Token(IF SkipWhile(s, XmlSpace, p) >= q THEN "space" ELSE "text", "", q)

\* the characters that end a run of character data
Markup == {"<", "&"} \cup NotXmlChars

\* the token that starts at p <= Len(s), whose first character is c
TokenOf(s, p, c, q) ==
    IF c = "<" /\ CharAt(s, p + 1) = "/"
    THEN EndTag(s, p, q, SkipWhile(s, XmlSpace, q))
    ELSE IF c = "<" /\ CharAt(s, p + 1) \in NameStartChars THEN StartTag(s, p, q)
    ELSE IF c = "<" \/ c \in NotXmlChars THEN BadToken
    ELSE IF c = "&"
    THEN Token(IF EntityEnd(s, p) = 0 THEN "bad" ELSE "entity", "", EntityEnd(s, p))
    ELSE CharData(s, p, SkipTo(s, Markup, p))

\* q: where the name of a tag at p ends
NextToken(s, p) ==
    TokenOf(s, p, SubSeq(s, p, p),
            SkipWhile(s, NameChars, IF CharAt(s, p + 1) = "/" THEN p + 2 ELSE p + 1))

\* the document from p on, with the names of the open elements in stack
\* (innermost last); closed: the document element has ended
RECURSIVE Content(_, _, _, _)
AfterToken(s, t, stack, closed) ==
    CASE t.kind = "open" ->
           ~closed /\ Content(s, t.next, Append(stack, t.name), FALSE)
      [] t.kind = "empty" ->
           ~closed /\ Content(s, t.next, stack, stack = <<>>)
      [] t.kind = "close" ->
           /\ stack # <<>>
           /\ stack[Len(stack)] = t.name
           /\ Content(s, t.next, SubSeq(stack, 1, Len(stack) - 1), Len(stack) = 1)
      [] t.kind \in {"entity", "text"} ->
           stack # <<>> /\ Content(s, t.next, stack, closed)
      [] t.kind = "space" -> Content(s, t.next, stack, closed)
      [] t.kind = "bad" -> FALSE

Content(s, p, stack, closed) ==
    IF p > Len(s) THEN closed ELSE AfterToken(s, NextToken(s, p), stack, closed)

\* where the document starts: after the XML declaration when the text starts
\* with one
AfterDecl(text) ==
    IF StartsWithAt(text, 1, XML_DECL_PLAIN) THEN Len(XML_DECL_PLAIN) + 1
    ELSE IF StartsWithAt(text, 1, XML_DECL_UTF8) THEN Len(XML_DECL_UTF8) + 1
    ELSE 1

ET_fromstring(text) == Content(text, AfterDecl(text), <<>>, FALSE)

\* ------------------------------------------------------------------------
\* _repair_xml (the reader's and the extractor's copies are the same text)
\* ------------------------------------------------------------------------

\* re.sub(r"[\x00-\x08\x0B\x0C\x0E-\x1F\x7F]", "", s) from position i
RECURSIVE StripControl(_, _)
StripAt(s, i, p) ==
    IF p > Len(s) THEN From(s, i)
    ELSE Slice(s, i, p - 1) \o StripControl(s, p + 1)

StripControl(s, i) == StripAt(s, i, SkipTo(s, ControlChars, i))

\* re.sub(r"&lt;(\/?[\w:]+[^&]*?)&gt;", r"<\1>", s) from position i.  The group
\* holds no "&", so a match at i is "&lt;", then a run without "&" that starts
\* with a word character (after an optional "/"), then "&gt;" at the first "&"
RECURSIVE RestoreTags(_, _)
\* p: the next "&lt;" at or after i (0: none); k: the first "&" after it;
\* w: where the group's first word character must be
RestoreAt(s, i, p, k, w) ==
    IF p = 0 THEN From(s, i)
    ELSE IF /\ w < k
            /\ CharAt(s, w) \in StrWord \cup {":"}
            /\ StartsWithAt(s, k, "&gt;")
    THEN Slice(s, i, p - 1) \o "<" \o Slice(s, p + 4, k - 1) \o ">"
         \o RestoreTags(s, k + 4)
    ELSE Slice(s, i, p + 3) \o RestoreTags(s, p + 4)

RestoreFrom(s, i, p) ==
    RestoreAt(s, i, p, SkipTo(s, {"&"}, p + 4),
              IF CharAt(s, p + 4) = "/" THEN p + 5 ELSE p + 4)

RestoreTags(s, i) == RestoreFrom(s, i, FindFrom(s, "&lt;", i))

\* lines 293-297: the declaration without an encoding gets one
repair_declaration(stripped) ==
    IF Contains(stripped, "<?xml") /\ ~Contains(stripped, "encoding=")
    THEN Replace(stripped, XML_DECL_PLAIN, XML_DECL_UTF8)
    ELSE stripped

\* lines 301-302: "&" first, then "<" and ">"
escape_markup(declared) ==
    Replace(Replace(Replace(declared, "&", "&amp;"), "<", "&lt;"), ">", "&gt;")

_repair_xml(xml_content) ==
    RestoreTags(escape_markup(repair_declaration(StripControl(xml_content, 1))), 1)

\* the copy in json_extractor.py: the same four steps
XMLToJSONExtractor_repair_xml(xml_content) ==
    RestoreTags(escape_markup(repair_declaration(StripControl(xml_content, 1))), 1)

\* ------------------------------------------------------------------------
\* The byte patterns of the locator: re.search and re.finditer
\* ------------------------------------------------------------------------

XML_START_PATTERN == "<\\?xml\\s+version=\"1\\.0\"[^>]*\\?>"
XML_END_PATTERN == "</entry>"
ENTRY_START_PATTERN == "<entry[^>]*>"
ENTRY_END_PATTERN == "</entry>"
GENERIC_PATTERNS ==
    <<"<entry[^>]*xmlns[^>]*>", "<\\w+[^>]*xmlns[^>]*>", "<entry[^>]*>">>

SYNTHETIC_DECL == "<?xml version=\"1.0\" encoding=\"UTF-8\"?>\n"

\* the last position of the match of pattern that starts at p, 0 when there
\* is none.  [^>]* cannot pass a ">", so a match ends at the first ">" after
\* its fixed head, and everything the pattern asks for lies before that ">"
re_match_end(pattern, b, p) ==
    CASE pattern = XML_START_PATTERN ->
           LET v == SkipWhile(b, ByteSpace, p + 5)
               m == v + Len("version=\"1.0\"")
               g == SkipTo(b, {">"}, m)
           IN  IF /\ StartsWithAt(b, p, "<?xml")
                  /\ v > p + 5
                  /\ StartsWithAt(b, v, "version=\"1.0\"")
                  /\ g <= Len(b) /\ g > m /\ CharAt(b, g - 1) = "?"
               THEN g ELSE 0
      [] pattern = "<entry[^>]*>" ->
           LET g == SkipTo(b, {">"}, p + 6)
           IN  IF StartsWithAt(b, p, "<entry") /\ g <= Len(b) THEN g ELSE 0
      [] pattern = "<entry[^>]*xmlns[^>]*>" ->
           LET g == SkipTo(b, {">"}, p + 6)
               x == FindFrom(b, "xmlns", p + 6)
           IN  IF /\ StartsWithAt(b, p, "<entry") /\ g <= Len(b)
                  /\ x # 0 /\ x + 4 < g
               THEN g ELSE 0
      [] pattern = "<\\w+[^>]*xmlns[^>]*>" ->
           LET g == SkipTo(b, {">"}, p + 2)
               x == FindFrom(b, "xmlns", p + 2)
           IN  IF /\ CharAt(b, p) = "<" /\ CharAt(b, p + 1) \in ByteWord
                  /\ g <= Len(b) /\ x # 0 /\ x + 4 < g
               THEN g ELSE 0

NoMatch == [start |-> 0, end |-> 0]

\* re.search(pattern, b[i-1:]): the leftmost match at or after position i
re_search(pattern, b, i) ==
    IF \E p \in i..Len(b) : re_match_end(pattern, b, p) # 0
    THEN LET p == CHOOSE p \in i..Len(b) :
                      /\ re_match_end(pattern, b, p) # 0
                      /\ \A q \in i..(p - 1) : re_match_end(pattern, b, q) = 0
         IN  [start |-> p, end |-> re_match_end(pattern, b, p)]
    ELSE NoMatch

\* list(re.finditer(pattern, b)) from position i: the starts of the matches,
\* leftmost first, none overlapping an earlier one
RECURSIVE re_finditer(_, _, _)
finditer_from(pattern, b, m) ==
    IF m.start = 0 THEN <<>>
    ELSE <<m.start>> \o re_finditer(pattern, b, m.end + 1)

re_finditer(pattern, b, i) == finditer_from(pattern, b, re_search(pattern, b, i))

\* ------------------------------------------------------------------------
\* The three tiers of the locator.  Each returns the text it found, "" when
\* it found none
\* ------------------------------------------------------------------------

\* the bytes from start_pos to the end of the first end_pattern at or after
\* it, "" when there is no start or no end (find() < 0: the tier returns "")
bytes_until(b, start_pos, end_pattern, end_at) ==
    IF start_pos = 0 \/ end_at = 0 THEN ""
    ELSE Slice(b, start_pos, end_at + Len(end_pattern) - 1)

bytes_from(b, start_pos, end_pattern) ==
    IF start_pos = 0 THEN ""
    ELSE bytes_until(b, start_pos, end_pattern, FindFrom(b, end_pattern, start_pos))

\* the first of two results that is a text
or_else(found, otherwise) == IF found # "" THEN found ELSE otherwise

\* the candidate range of _find_complete_xml_document: from the first match of
\* the declaration pattern to the end of the first </entry> after it
complete_xml_bytes(binary_data) ==
    bytes_from(binary_data, re_search(XML_START_PATTERN, binary_data, 1).start,
               XML_END_PATTERN)

\* its loop over the encodings, from the k-th on: decode, parse, return; d is
\* the text under the k-th encoding
RECURSIVE complete_xml_decode(_, _)
\* a variant without the ET.fromstring check, for which
\* C2_FirstDeclarationRange fails
complete_xml_try_unvalidated(xml_bytes, k, d) ==
    IF d.ok THEN d.text ELSE complete_xml_decode(xml_bytes, k + 1)

complete_xml_try(xml_bytes, k, d) ==
    IF d.ok /\ ET_fromstring(d.text) THEN d.text
    ELSE complete_xml_decode(xml_bytes, k + 1)

complete_xml_decode(xml_bytes, k) ==
    IF xml_bytes = "" \/ k > Len(ENCODINGS) THEN ""
    ELSE complete_xml_try(xml_bytes, k, decode(xml_bytes, ENCODINGS[k]))

_find_complete_xml_document(binary_data) ==
    complete_xml_decode(complete_xml_bytes(binary_data), 1)

\* the candidate range of _find_entry_block: from the first <entry ...> to the
\* end of the first </entry> after it
entry_block_bytes(binary_data) ==
    bytes_from(binary_data, re_search(ENTRY_START_PATTERN, binary_data, 1).start,
               ENTRY_END_PATTERN)

\* its loop over the encodings: decode, parse with the declaration put in
\* front, return the text without it
RECURSIVE entry_block_decode(_, _)
entry_block_try(xml_bytes, k, d) ==
    IF d.ok /\ ET_fromstring(SYNTHETIC_DECL \o d.text) THEN d.text
    ELSE entry_block_decode(xml_bytes, k + 1)

entry_block_decode(xml_bytes, k) ==
    IF xml_bytes = "" \/ k > Len(ENCODINGS) THEN ""
    ELSE entry_block_try(xml_bytes, k, decode(xml_bytes, ENCODINGS[k]))

_find_entry_block(binary_data) ==
    entry_block_decode(entry_block_bytes(binary_data), 1)

\* tag_name of the match at start_pos: re.match(rb"<(\w+)", b[start_pos:])
tag_name_at(b, start_pos) ==
    Slice(b, start_pos + 1, SkipWhile(b, ByteWord, start_pos + 1) - 1)

\* the candidate range of _find_any_xml_block for the match at start_pos: up
\* to the end of the first closing tag of the same name, "" when there is none
any_block_bytes(b, start_pos) ==
    IF tag_name_at(b, start_pos) = "" THEN ""
    ELSE bytes_from(b, start_pos, "</" \o tag_name_at(b, start_pos) \o ">")

\* lines 198-200: the declaration is put in front unless the text starts
\* with one
with_declaration(text) ==
    IF StartsWithAt(text, 1, "<?xml") THEN text ELSE SYNTHETIC_DECL \o text

\* its loop over the encodings: decode, put the declaration in front, parse,
\* return the text with the declaration
RECURSIVE any_block_decode(_, _)
any_block_try(xml_bytes, k, d) ==
    IF d.ok /\ ET_fromstring(with_declaration(d.text))
    THEN with_declaration(d.text)
    ELSE any_block_decode(xml_bytes, k + 1)

any_block_decode(xml_bytes, k) ==
    IF xml_bytes = "" \/ k > Len(ENCODINGS) THEN ""
    ELSE any_block_try(xml_bytes, k, decode(xml_bytes, ENCODINGS[k]))

\* a variant that looks at the first match of a pattern only, for which
\* C5_EveryMatchInPriorityOrder fails
any_block_first_match(b, matches, n) ==
    IF n > Len(matches) THEN ""
    ELSE any_block_decode(any_block_bytes(b, matches[n]), 1)

\* its loop over the matches of one pattern, from the n-th on
RECURSIVE any_block_matches(_, _, _)
any_block_matches(b, matches, n) ==
    IF n > Len(matches) THEN ""
    ELSE or_else(any_block_decode(any_block_bytes(b, matches[n]), 1),
                 any_block_matches(b, matches, n + 1))

\* its loop over the patterns, from the k-th on
RECURSIVE any_block_patterns(_, _, _)
any_block_patterns(b, patterns, k) ==
    IF k > Len(patterns) THEN ""
    ELSE or_else(any_block_matches(b, re_finditer(patterns[k], b, 1), 1),
                 any_block_patterns(b, patterns, k + 1))

_find_any_xml_block(binary_data) ==
    any_block_patterns(binary_data, GENERIC_PATTERNS, 1)

\* ------------------------------------------------------------------------
\* The element tree ET.fromstring returns.  An element is a record of its
\* tag ("{namespace-uri}local", or "local" in no namespace), its attributes
\* (a function from attribute names to values), its text (NONE when there is
\* none: the parser never leaves an empty text) and its children in document
\* order.  Tags, attribute values and texts are plain ASCII here: "{" and "}"
\* are the braces themselves.  NONE is Python's None where a str is expected,
\* None where an object is.
\* ------------------------------------------------------------------------

NONE == "(none)"
None == [None |-> TRUE]

Element(tag, attrib, text, children) ==
    [tag |-> tag, attrib |-> attrib, text |-> text, children |-> children]

NAMESPACES ==
    [atom |-> "http://www.w3.org/2005/Atom",
     A |-> "urn:schemas-autodesk-com:partatom"]

\* the tag ElementTree looks for, for the path "prefix:local" under NAMESPACES
qualified(prefix, local) == "{" \o NAMESPACES[prefix] \o "}" \o local

\* elem.findall("prefix:local", NAMESPACES): the children of that tag
findall(elem, prefix, local) ==
    SelectSeq(elem.children, LAMBDA child : child.tag = qualified(prefix, local))

\* elem.find("prefix:local", NAMESPACES): the first of them, or None
find(elem, prefix, local) ==
    IF findall(elem, prefix, local) = <<>> THEN None
    ELSE Head(findall(elem, prefix, local))

\* x.text if x is not None and x.text else ""
text_or_empty(x) == IF x = None \/ x.text = NONE \/ x.text = "" THEN "" ELSE x.text

\* elem.get(key, default)
get(elem, key, default) ==
    IF key \in DOMAIN elem.attrib THEN elem.attrib[key] ELSE default

\* str.lower() of an ASCII text
RECURSIVE lower(_)
lower(s) ==
    LET upper == "ABCDEFGHIJKLMNOPQRSTUVWXYZ"
        c == SubSeq(s, 1, 1)
        p == FindFrom(upper, c, 1)
    IN  IF s = "" THEN ""
        ELSE (IF p = 0 THEN c ELSE SubSeq("abcdefghijklmnopqrstuvwxyz", p, p))
             \o lower(From(s, 2))

\* ------------------------------------------------------------------------
\* The element that ET.fromstring returns for a text that parses: the
\* document element with its tag in the namespace that xmlns declares for
\* it, its attributes, the character data up to its first child as text
\* (None when there is none), and its children
\* ------------------------------------------------------------------------

\* the character that a reference to a predefined entity stands for
entity_char(name) ==
    CASE name = "amp" -> "&"
      [] name = "lt" -> "<"
      [] name = "gt" -> ">"
      [] name = "apos" -> "'"
      [] name = "quot" -> "\""

\* a text with its references resolved, from position i; p is the position
\* of the next "&"
RECURSIVE resolve_from(_, _)
resolve_at(s, i, p) ==
    IF p = 0 THEN From(s, i)
    ELSE Slice(s, i, p - 1) \o entity_char(Slice(s, p + 1, EntityEnd(s, p) - 2))
             \o resolve_from(s, EntityEnd(s, p))

resolve_from(s, i) == resolve_at(s, i, FindFrom(s, "&", i))

\* the parser reads every line end as a line feed
line_ends(raw) == Replace(Replace(raw, "\r\n", "\n"), "\r", "\n")

\* character data as the parser hands it on
char_data(raw) == line_ends(raw)

\* the value of an attribute: white space characters become blanks
attribute_value(raw) ==
    resolve_from(Replace(Replace(line_ends(raw), "\n", " "), "\t", " "), 1)

\* the attributes of a start tag from q on, the first position after the
\* name or after an attribute that holds no white space; e is where the
\* attribute's name ends, v where its value's opening quote is
RECURSIVE attributes(_, _)
attribute_at(s, q, e, v) ==
    <<[name |-> Slice(s, q, e - 1),
       value |-> attribute_value(
                     Slice(s, v + 1, AttValueEnd(s, v + 1, CharAt(s, v)) - 1))]>>
        \o attributes(s, SkipWhile(s, XmlSpace,
                                   AttValueEnd(s, v + 1, CharAt(s, v)) + 1))

attribute_named(s, q, e) ==
    attribute_at(s, q, e,
                 SkipWhile(s, XmlSpace, SkipWhile(s, XmlSpace, e) + 1))

attributes(s, q) ==
    IF CharAt(s, q) \in NameStartChars
    THEN attribute_named(s, q, SkipWhile(s, NameChars, q))
    ELSE <<>>

\* the namespace of an element: the one its xmlns attribute declares, that
\* of the element around it without one
default_namespace(attrs, ns) ==
    IF \E i \in 1..Len(attrs) : attrs[i].name = "xmlns"
    THEN attrs[CHOOSE i \in 1..Len(attrs) : attrs[i].name = "xmlns"].value
    ELSE ns

tag_of(ns, name) == IF ns = "" THEN name ELSE "{" \o ns \o "}" \o name

\* elem.attrib: the attributes but the namespace declaration
attrib_of(attrs) ==
    [key \in {attrs[i].name : i \in 1..Len(attrs)} \ {"xmlns"} |->
        attrs[CHOOSE i \in 1..Len(attrs) : attrs[i].name = key].value]

Parsed(elem, next) == [elem |-> elem, next |-> next]

\* what the token t at p adds to the text of the element around it
piece(s, p, t) ==
    IF t.kind = "entity" THEN entity_char(Slice(s, p + 1, t.next - 2))
    ELSE char_data(Slice(s, p, t.next - 1))

joined(text, more) == IF text = NONE THEN more ELSE text \o more

RECURSIVE element_content(_, _, _, _, _)
RECURSIVE element_at(_, _, _)

element_closed(tag, attrib, content) ==
    Parsed(Element(tag, attrib, content.text, content.children), content.next)

\* the element whose start tag is the token t, in the namespace ns
element_of(s, t, attrs, ns) ==
    IF t.kind = "empty"
    THEN Parsed(Element(tag_of(ns, t.name), attrib_of(attrs), NONE, <<>>), t.next)
    ELSE element_closed(tag_of(ns, t.name), attrib_of(attrs),
                        element_content(s, t.next, ns, NONE, <<>>))

element_with(s, t, attrs, ns) == element_of(s, t, attrs, default_namespace(attrs, ns))

\* the element whose start tag is at p, inside an element of the namespace ns
element_at(s, p, ns) ==
    element_with(s, NextToken(s, p),
                 attributes(s, SkipWhile(s, XmlSpace, SkipWhile(s, NameChars, p + 1))),
                 ns)

content_child(s, child, ns, text, children) ==
    element_content(s, child.next, ns, text, Append(children, child.elem))

\* the content of an element from p on, up to its end tag: character data
\* after the first child is no text of the element
content_after(s, p, t, ns, text, children) ==
    CASE t.kind = "close" ->
           [text |-> text, children |-> children, next |-> t.next]
      [] t.kind \in {"open", "empty"} ->
           content_child(s, element_at(s, p, ns), ns, text, children)
      [] OTHER ->
           element_content(s, t.next, ns,
                           IF children # <<>> THEN text
                           ELSE joined(text, piece(s, p, t)),
                           children)

element_content(s, p, ns, text, children) ==
    content_after(s, p, NextToken(s, p), ns, text, children)

\* ET.fromstring(text) of a text that parses
ET_root(text) ==
    element_at(text, SkipWhile(text, XmlSpace, AfterDecl(text)), "").elem

\* ------------------------------------------------------------------------
\* Parameters of a parameter group and of a family part
\* ------------------------------------------------------------------------

\* a variant that keeps the namespace, for which C30_NoBracketedNamespace
\* fails
_clean_tag_name_kept(tag_name) == tag_name

_clean_tag_name_first_brace_only(tag_name) ==
    IF StartsWithAt(tag_name, 1, "{") THEN From(tag_name, 2) ELSE tag_name

_clean_tag_name(tag_name) ==
    IF StartsWithAt(tag_name, 1, "{") /\ FindFrom(tag_name, "}", 1) # 0
    THEN From(tag_name, FindFrom(tag_name, "}", 1) + 1)
    ELSE tag_name

Parameter(name, display_name, type, type_of_parameter, units, value) ==
    [name |-> name, display_name |-> display_name, type |-> type,
     type_of_parameter |-> type_of_parameter, units |-> units, value |-> value]

_create_parameter_from_element(elem) ==
    Parameter(_clean_tag_name(elem.tag),
              get(elem, "displayName", NONE),
              get(elem, "type", "custom"),
              get(elem, "typeOfParameter", NONE),
              get(elem, "units", NONE),
              elem.text)

\* the children the loops skip (a Parameter object is never false, so
\* "if param:" drops none)
group_skips_vendor_only(child) ==
    StartsWithAt(child.tag, 1, "{" \o NAMESPACES["A"] \o "}")

group_skips(child) ==
    \/ StartsWithAt(child.tag, 1, "{" \o NAMESPACES["A"] \o "}")
    \/ lower(_clean_tag_name(child.tag)) = "title"

\* the title of a part, in the namespace of Atom only
part_skips_atom_title_only(child) ==
    child.tag \in {"{" \o NAMESPACES["atom"] \o "}" \o "title"}

part_skips(child) ==
    \/ child.tag \in {"{" \o NAMESPACES["atom"] \o "}" \o "title"}
    \/ lower(_clean_tag_name(child.tag)) = "title"

\* one Parameter for each child that is not skipped
parameters_of(kept) ==
    [i \in 1..Len(kept) |-> _create_parameter_from_element(kept[i])]

_get_parameters_from_group(group_elem) ==
    parameters_of(SelectSeq(group_elem.children,
                            LAMBDA child : ~group_skips(child)))

_get_parameters_from_part(part_elem) ==
    parameters_of(SelectSeq(part_elem.children,
                            LAMBDA child : ~part_skips(child)))

\* the JSON extractor's copies: the same statements, a dict with the
\* Parameter's fields as keys for each child
_extract_parameters_from_group(group_elem) ==
    parameters_of(SelectSeq(group_elem.children,
                            LAMBDA child : ~group_skips(child)))

_extract_parameters_from_part(part_elem) ==
    parameters_of(SelectSeq(part_elem.children,
                            LAMBDA child : ~part_skips(child)))

\* ------------------------------------------------------------------------
\* The family and its parts
\* ------------------------------------------------------------------------

\* how a call ends: with a value, or with an exception
Returns(value) == [raises |-> "", value |-> value]
Raises(exception) == [raises |-> exception]

\* int(text): blanks around, a sign, digits with single underscores between
\* them; Raises("ValueError") for every other text
RECURSIVE int_digits(_, _)
int_digits(s, n) ==
    IF s = "" THEN n
    ELSE IF SubSeq(s, 1, 1) = "_" THEN int_digits(From(s, 2), n)
    ELSE int_digits(From(s, 2),
                    10 * n + FindFrom("0123456789", SubSeq(s, 1, 1), 1) - 1)

int(text) ==
    LET blanks == {" ", "\t", "\n", "\r", "\f"}
        first == SkipWhile(text, blanks, 1)
        last == IF first > Len(text) THEN 0
                ELSE CHOOSE p \in first..Len(text) :
                         /\ SubSeq(text, p, p) \notin blanks
                         /\ \A q \in (p + 1)..Len(text) : SubSeq(text, q, q) \in blanks
        body == Slice(text, first, last)
        signed == CharAt(body, 1) \in {"+", "-"}
        digits == IF signed THEN From(body, 2) ELSE body
    IN  IF /\ digits # ""
           /\ CharSet(digits) \subseteq Digits \cup {"_"}
           /\ CharAt(digits, 1) # "_"
           /\ CharAt(digits, Len(digits)) # "_"
           /\ ~Contains(digits, "__")
        THEN Returns(IF CharAt(body, 1) = "-" THEN 0 - int_digits(digits, 0)
                     ELSE int_digits(digits, 0))
        ELSE Raises("ValueError")

FamilyPart(name, type, parameters) ==
    [name |-> name, type |-> type, parameters |-> parameters]

Family(type, variation_count, parts) ==
    [type |-> type, variation_count |-> variation_count, parts |-> parts]

\* a variant whose fallback for a text that int rejects is 1, for which
\* C14_VariationCountOrZero fails
variation_count_of_fallback_one(family_elem) ==
    IF text_or_empty(find(family_elem, "A", "variationCount")) = "" THEN 0
    ELSE IF int(find(family_elem, "A", "variationCount").text).raises # "" THEN 1
    ELSE int(find(family_elem, "A", "variationCount").text).value

\* lines 478-484, and the same lines of the extractor: the ValueError of int
\* is caught
variation_count_of(family_elem) ==
    IF text_or_empty(find(family_elem, "A", "variationCount")) = "" THEN 0
    ELSE IF int(find(family_elem, "A", "variationCount").text).raises # "" THEN 0
    ELSE int(find(family_elem, "A", "variationCount").text).value

\* the extractor's _extract_family_parts: one dict for each A:part
_extract_family_parts(family_elem) ==
    [i \in 1..Len(findall(family_elem, "A", "part")) |->
        FamilyPart(text_or_empty(find(findall(family_elem, "A", "part")[i],
                                      "atom", "title")),
                   get(findall(family_elem, "A", "part")[i], "type", "user"),
                   _extract_parameters_from_part(
                       findall(family_elem, "A", "part")[i]))]

\* the reader's _get_family_parts: xml_reader.py imports no FamilyPart
\* (lines 7-17), so that line 500 raises NameError for the first A:part; a
\* family without parts gets the empty list.  (Where annotations are
\* evaluated when a function is defined, line 490 raises the same NameError
\* while the class is made, and there is no reader to call.)
_get_family_parts(family_elem) ==
    IF findall(family_elem, "A", "part") = <<>> THEN Returns(<<>>)
    ELSE Raises("NameError")

_get_family(root) ==
    IF find(root, "A", "family") = None THEN Returns(None)
    ELSE IF _get_family_parts(find(root, "A", "family")).raises # ""
    THEN _get_family_parts(find(root, "A", "family"))
    ELSE Returns(Family(get(find(root, "A", "family"), "type", "user"),
                        variation_count_of(find(root, "A", "family")),
                        _get_family_parts(find(root, "A", "family")).value))

_extract_family(root) ==
    IF find(root, "A", "family") = None THEN Returns(None)
    ELSE Returns(Family(get(find(root, "A", "family"), "type", "user"),
                        variation_count_of(find(root, "A", "family")),
                        _extract_family_parts(find(root, "A", "family"))))

\* ------------------------------------------------------------------------
\* Timestamps: datetime, timedelta and timezone, and datetime.fromisoformat
\* as Python 3.11 reads a text: a date (YYYY-MM-DD, YYYYMMDD, YYYY-Www-D,
\* YYYYWwwD, the day of a week date optional), then nothing, or any one
\* character and a time HH[:MM[:SS[.ffffff]]] (the colons optional) with an
\* optional offset +HH[:MM[:SS[.ffffff]]]
\* ------------------------------------------------------------------------

\* datetime(...): tzinfo is None or a timezone
datetime(year, month, day, hour, minute, second, microsecond, tzinfo) ==
    [year |-> year, month |-> month, day |-> day, hour |-> hour,
     minute |-> minute, second |-> second, microsecond |-> microsecond,
     tzinfo |-> tzinfo]

\* timedelta(seconds=..., microseconds=...), normalised as Python keeps it:
\* 0 <= seconds < 86400 and 0 <= microseconds < 1000000, the sign in days
timedelta(seconds, microseconds) ==
    [days |-> (seconds + microseconds \div 1000000) \div 86400,
     seconds |-> (seconds + microseconds \div 1000000) % 86400,
     microseconds |-> microseconds % 1000000]

\* timezone(offset): the offset from UTC
timezone(offset) == [utcoffset |-> offset]

\* timezone(offset) raises ValueError unless the offset is strictly between
\* minus one day and one day
timezone_in_range(offset) ==
    \/ offset.days = 0
    \/ offset.days = -1 /\ (offset.seconds # 0 \/ offset.microseconds # 0)

_is_leap(year) == year % 4 = 0 /\ (year % 100 # 0 \/ year % 400 = 0)

_days_in_month(year, month) ==
    IF month = 2 THEN (IF _is_leap(year) THEN 29 ELSE 28)
    ELSE IF month \in {4, 6, 9, 11} THEN 30 ELSE 31

_days_before_year(year) ==
    (year - 1) * 365 + (year - 1) \div 4 - (year - 1) \div 100
        + (year - 1) \div 400

RECURSIVE _days_before_month(_, _)
_days_before_month(year, month) ==
    IF month = 1 THEN 0
    ELSE _days_before_month(year, month - 1) + _days_in_month(year, month - 1)

\* the day number of a date, 1 for 0001-01-01
_ymd2ord(year, month, day) ==
    _days_before_year(year) + _days_before_month(year, month) + day

\* the date of a day number that lies in the year before, in, or after year
_ord2ymd(n, year) ==
    CHOOSE ymd \in ((year - 1)..(year + 1)) \X (1..12) \X (1..31) :
        /\ ymd[3] <= _days_in_month(ymd[1], ymd[2])
        /\ _ymd2ord(ymd[1], ymd[2], ymd[3]) = n

\* the day number of the Monday that starts week 1 of a year
_isoweek1monday(year) ==
    LET firstday == _ymd2ord(year, 1, 1)
        firstweekday == (firstday + 6) % 7
    IN  IF firstweekday > 3 THEN firstday - firstweekday + 7
        ELSE firstday - firstweekday

\* what a parsing step gives: no date, or the three numbers of one
NoDate == [ok |-> FALSE]
Date(year, month, day) == [ok |-> TRUE, year |-> year, month |-> month, day |-> day]

\* the date of a week date: weeks 1..52, week 53 in the years that have one,
\* days 1..7
_isoweek_to_gregorian(year, week, day) ==
    IF year < 1 \/ year > 9999 THEN NoDate
    ELSE IF /\ week \notin 1..52
            /\ ~(/\ week = 53
                 /\ \/ _ymd2ord(year, 1, 1) % 7 = 4
                    \/ _ymd2ord(year, 1, 1) % 7 = 3 /\ _is_leap(year))
    THEN NoDate
    ELSE IF day \notin 1..7 THEN NoDate
    ELSE Date(_ord2ymd(_isoweek1monday(year) + (week - 1) * 7 + (day - 1), year)[1],
              _ord2ymd(_isoweek1monday(year) + (week - 1) * 7 + (day - 1), year)[2],
              _ord2ymd(_isoweek1monday(year) + (week - 1) * 7 + (day - 1), year)[3])

\* the number written with the n digits of s from position p, -1 when one of
\* the n characters is no digit or is past the end
parse_digits(s, p, n) ==
    IF p + n - 1 <= Len(s) /\ \A q \in p..(p + n - 1) : SubSeq(s, q, q) \in Digits
    THEN int_digits(Slice(s, p, p + n - 1), 0)
    ELSE -1

\* how many characters of a text of len characters are its date: 7, 8 or
\* 10, -1 for a week date cut short
_find_isoformat_datetime_separator(dtstr, len) ==
    IF len = 7 THEN 7
    ELSE IF CharAt(dtstr, 5) = "-"
    THEN IF CharAt(dtstr, 6) = "W"
         THEN IF len < 8 THEN -1
              ELSE IF len > 8 /\ CharAt(dtstr, 9) = "-"
              THEN IF len = 9 THEN -1
                   ELSE IF len > 10 /\ CharAt(dtstr, 11) \in Digits THEN 8
                   ELSE 10
              ELSE 8
         ELSE 10
    ELSE IF CharAt(dtstr, 5) = "W"
    THEN IF SkipWhile(dtstr, Digits, 8) - 1 < 9
         THEN SkipWhile(dtstr, Digits, 8) - 1
         ELSE IF (SkipWhile(dtstr, Digits, 8) - 1) % 2 = 0 THEN 7
         ELSE 8
    ELSE 8

\* the date at the head of dtstr, len characters long; sep is 1 when a
\* hyphen follows the year, and every later hyphen is there exactly then
week_date(dtstr, len, sep) ==
    IF parse_digits(dtstr, 6 + sep, 2) < 0 THEN NoDate
    ELSE IF len <= 7 + sep
    THEN _isoweek_to_gregorian(parse_digits(dtstr, 1, 4),
                               parse_digits(dtstr, 6 + sep, 2), 1)
    ELSE IF sep = 1 /\ CharAt(dtstr, 9) # "-" THEN NoDate
    ELSE IF parse_digits(dtstr, 8 + 2 * sep, 1) < 0 THEN NoDate
    ELSE _isoweek_to_gregorian(parse_digits(dtstr, 1, 4),
                               parse_digits(dtstr, 6 + sep, 2),
                               parse_digits(dtstr, 8 + 2 * sep, 1))

calendar_date(dtstr, sep) ==
    IF parse_digits(dtstr, 5 + sep, 2) < 0 THEN NoDate
    ELSE IF sep = 1 /\ CharAt(dtstr, 8) # "-" THEN NoDate
    ELSE IF parse_digits(dtstr, 7 + 2 * sep, 2) < 0 THEN NoDate
    ELSE Date(parse_digits(dtstr, 1, 4), parse_digits(dtstr, 5 + sep, 2),
              parse_digits(dtstr, 7 + 2 * sep, 2))

parse_isoformat_date(dtstr, len) ==
    IF parse_digits(dtstr, 1, 4) < 0 THEN NoDate
    ELSE IF CharAt(dtstr, IF CharAt(dtstr, 5) = "-" THEN 6 ELSE 5) = "W"
    THEN week_date(dtstr, len, IF CharAt(dtstr, 5) = "-" THEN 1 ELSE 0)
    ELSE calendar_date(dtstr, IF CharAt(dtstr, 5) = "-" THEN 1 ELSE 0)

\* what parsing HH[:MM[:SS[.ffffff]]] gives: nothing, or the four numbers
\* and whether a character that is not part of them follows
NoTime == [ok |-> FALSE]
Time(vals, rest) == [ok |-> TRUE, vals |-> vals, rest |-> rest]

_FRACTION_CORRECTION == <<100000, 10000, 1000, 100, 10, 1>>

\* the fraction from position p up to p_end: at most six digits count, more
\* digits are skipped
parse_fraction(s, p, p_end, vals, to_parse) ==
    IF parse_digits(s, p, to_parse) < 0 THEN NoTime
    ELSE Time(vals \o [i \in 1..(3 - Len(vals)) |-> 0]
                   \o <<parse_digits(s, p, to_parse)
                            * _FRACTION_CORRECTION[to_parse]>>,
              CharAt(s, SkipWhile(s, Digits, p + to_parse)) # "")

\* hours, minutes and seconds from position p up to p_end, i of them read
\* so far: two digits each, colons between them if one follows the hours
RECURSIVE parse_hh_mm_ss(_, _, _, _, _, _)
after_digits(s, p, p_end, i, has_separator, c, vals) ==
    IF p >= p_end
    THEN Time(vals \o [k \in 1..(4 - Len(vals)) |-> 0], c # "")
    ELSE IF has_separator /\ c = ":"
    THEN parse_hh_mm_ss(s, p, p_end, i + 1, has_separator, vals)
    ELSE IF c \in {".", ","}
    THEN parse_fraction(s, p, p_end, vals,
                        IF p_end - p >= 6 THEN 6 ELSE p_end - p)
    ELSE IF ~has_separator
    THEN parse_hh_mm_ss(s, p - 1, p_end, i + 1, has_separator, vals)
    ELSE NoTime

parse_hh_mm_ss(s, p, p_end, i, has_separator, vals) ==
    IF i = 3
    THEN parse_fraction(s, p, p_end, vals,
                        IF p_end - p >= 6 THEN 6 ELSE p_end - p)
    ELSE IF parse_digits(s, p, 2) < 0 THEN NoTime
    ELSE after_digits(s, p + 3, p_end, i,
                      IF i = 0 THEN CharAt(s, p + 2) = ":" ELSE has_separator,
                      CharAt(s, p + 2), Append(vals, parse_digits(s, p, 2)))

parse_hh_mm_ss_ff(s, p, p_end) == parse_hh_mm_ss(s, p, p_end, 0, TRUE, <<>>)

\* the offset of hours, minutes, seconds and a fraction after a sign: UTC
\* when the whole seconds are 0, whatever the fraction
tz_delta(vals, sign) ==
    IF vals[1] * 3600 + vals[2] * 60 + vals[3] = 0 THEN timedelta(0, 0)
    ELSE timedelta(sign * (vals[1] * 3600 + vals[2] * 60 + vals[3]),
                   sign * vals[4])

\* the timezone that follows the sign at tzinfo_pos
tz_offset(tz, sign) ==
    IF ~tz.ok \/ tz.rest THEN NoTime
    ELSE IF ~timezone_in_range(tz_delta(tz.vals, sign)) THEN NoTime
    ELSE [ok |-> TRUE, tzinfo |-> timezone(tz_delta(tz.vals, sign))]

\* the time of day t read before tzinfo_pos, and what follows it
time_and_zone(s, t, tzinfo_pos) ==
    IF ~t.ok THEN NoTime
    ELSE IF tzinfo_pos = Len(s) + 1
    THEN (IF t.rest THEN NoTime ELSE Time(t.vals, FALSE) @@ [tzinfo |-> None])
    ELSE IF CharAt(s, tzinfo_pos) = "Z"
    THEN (IF tzinfo_pos # Len(s) THEN NoTime
          ELSE Time(t.vals, FALSE) @@ [tzinfo |-> timezone(timedelta(0, 0))])
    ELSE IF ~tz_offset(parse_hh_mm_ss_ff(s, tzinfo_pos + 1, Len(s) + 1),
                       IF CharAt(s, tzinfo_pos) = "-" THEN -1 ELSE 1).ok
    THEN NoTime
    ELSE Time(t.vals, FALSE)
         @@ tz_offset(parse_hh_mm_ss_ff(s, tzinfo_pos + 1, Len(s) + 1),
                      IF CharAt(s, tzinfo_pos) = "-" THEN -1 ELSE 1)

\* the time that starts at position p of s: the offset starts at the first
\* Z, + or -
parse_isoformat_time(s, p) ==
    time_and_zone(s, parse_hh_mm_ss_ff(s, p, SkipTo(s, {"Z", "+", "-"}, p)),
                  SkipTo(s, {"Z", "+", "-"}, p))

\* the range checks of the constructor datetime(...)
datetime_in_range(d, t) ==
    /\ d.year \in 1..9999
    /\ d.month \in 1..12
    /\ d.day \in 1.._days_in_month(d.year, d.month)
    /\ t.vals[1] \in 0..23
    /\ t.vals[2] \in 0..59
    /\ t.vals[3] \in 0..59

fromisoformat_parts(d, t) ==
    IF ~d.ok \/ ~t.ok THEN Raises("ValueError")
    ELSE IF ~datetime_in_range(d, t) THEN Raises("ValueError")
    ELSE Returns(datetime(d.year, d.month, d.day, t.vals[1], t.vals[2],
                          t.vals[3], t.vals[4], t.tzinfo))

fromisoformat_at(date_string, separator_location) ==
    IF separator_location < 0 THEN Raises("ValueError")
    ELSE fromisoformat_parts(
             parse_isoformat_date(date_string, separator_location),
             IF Len(date_string) > separator_location
             THEN parse_isoformat_time(date_string, separator_location + 2)
             ELSE Time(<<0, 0, 0, 0>>, FALSE) @@ [tzinfo |-> None])

\* datetime.fromisoformat(date_string)
fromisoformat(date_string) ==
    IF Len(date_string) < 7 THEN Raises("ValueError")
    ELSE fromisoformat_at(
             date_string,
             _find_isoformat_datetime_separator(date_string, Len(date_string)))

\* ------------------------------------------------------------------------
\* The fields of the entry: updated, taxonomies, categories, links
\* ------------------------------------------------------------------------

Taxonomy(term, label) == [term |-> term, label |-> label]

Category(name) == [name |-> name]

DesignFile(name, product, product_version, updated) ==
    [name |-> name, product |-> product, product_version |-> product_version,
     updated |-> updated]

Link(rel, type, href, design_file) ==
    [rel |-> rel, type |-> type, href |-> href, design_file |-> design_file]

\* a variant that cuts a trailing Z off instead of writing the offset, for
\* which C15_TimestampOrNow fails
to_offset_cut(text) ==
    IF text # "" /\ CharAt(text, Len(text)) = "Z" THEN Slice(text, 1, Len(text) - 1)
    ELSE text

\* updated_elem.text.replace("Z", "+00:00")
to_offset(text) == Replace(text, "Z", "+00:00")

\* lines 319-326 and 376-383: the timestamp of an element that has a text
\* which fromisoformat accepts, the clock's time (datetime.now()) otherwise
updated_of(updated_elem, clock) ==
    IF text_or_empty(updated_elem) = "" THEN clock
    ELSE IF fromisoformat(to_offset(updated_elem.text)).raises # "" THEN clock
    ELSE fromisoformat(to_offset(updated_elem.text)).value

_get_updated(root, clock) == updated_of(find(root, "atom", "updated"), clock)

\* a variant that is content with one of the two children, for which
\* C17_TaxonomyWhenBoth fails
with_term_or_label(taxonomy_elem) ==
    \/ find(taxonomy_elem, "atom", "term") # None
    \/ find(taxonomy_elem, "atom", "label") # None

\* line 335: if term_elem is not None and label_elem is not None
with_term_and_label(taxonomy_elem) ==
    /\ find(taxonomy_elem, "atom", "term") # None
    /\ find(taxonomy_elem, "atom", "label") # None

_get_taxonomies(root) ==
    [i \in 1..Len(SelectSeq(findall(root, "A", "taxonomy"), with_term_and_label)) |->
        Taxonomy(text_or_empty(
                     find(SelectSeq(findall(root, "A", "taxonomy"),
                                    with_term_and_label)[i], "atom", "term")),
                 text_or_empty(
                     find(SelectSeq(findall(root, "A", "taxonomy"),
                                    with_term_and_label)[i], "atom", "label")))]

\* a variant that makes a category of every atom:category, for which
\* C16_CategoryForEachTerm fails
with_term_or_without(category_elem) == TRUE

\* line 347: if term_elem is not None
with_term(category_elem) == find(category_elem, "atom", "term") # None

\* the reader's _get_categories; the extractor's _extract_categories makes
\* the dicts of the same names
_get_categories(root) ==
    [i \in 1..Len(SelectSeq(findall(root, "atom", "category"), with_term)) |->
        Category(text_or_empty(
            find(SelectSeq(findall(root, "atom", "category"), with_term)[i],
                 "atom", "term")))]

_extract_categories(root) == _get_categories(root)

\* a variant that makes a design file for every link, for which
\* C18_LinkForEachElement fails
_get_design_file_for_every_link(link_elem, clock) ==
    IF find(link_elem, "A", "design-file") = None
    THEN DesignFile("", "", "", clock)
    ELSE DesignFile(
             text_or_empty(find(find(link_elem, "A", "design-file"), "A", "title")),
             text_or_empty(find(find(link_elem, "A", "design-file"), "A", "product")),
             text_or_empty(find(find(link_elem, "A", "design-file"),
                                "A", "product-version")),
             updated_of(find(find(link_elem, "A", "design-file"), "A", "updated"),
                        clock))

_get_design_file(link_elem, clock) ==
    IF find(link_elem, "A", "design-file") = None THEN None
    ELSE DesignFile(
             text_or_empty(find(find(link_elem, "A", "design-file"), "A", "title")),
             text_or_empty(find(find(link_elem, "A", "design-file"), "A", "product")),
             text_or_empty(find(find(link_elem, "A", "design-file"),
                                "A", "product-version")),
             updated_of(find(find(link_elem, "A", "design-file"), "A", "updated"),
                        clock))

_get_links(root, clock) ==
    [i \in 1..Len(findall(root, "atom", "link")) |->
        Link(get(findall(root, "atom", "link")[i], "rel", ""),
             get(findall(root, "atom", "link")[i], "type", ""),
             get(findall(root, "atom", "link")[i], "href", ""),
             _get_design_file(findall(root, "atom", "link")[i], clock))]

\* ------------------------------------------------------------------------
\* The entry as read_from_xml_string builds it, and the family as the
\* factory builds it from the extractor's data
\* ------------------------------------------------------------------------

ParameterGroup(name, parameters) == [name |-> name, parameters |-> parameters]

Feature(name, groups) == [name |-> name, groups |-> groups]

RevitFamilyEntry(name, id, updated, taxonomies, categories, links, features, family) ==
    [name |-> name, id |-> id, updated |-> updated, taxonomies |-> taxonomies,
     categories |-> categories, links |-> links, features |-> features,
     family |-> family]

_get_title(root) == text_or_empty(find(root, "atom", "title"))

_get_id(root) == text_or_empty(find(root, "atom", "id"))

_get_parameter_groups(feature_elem) ==
    [i \in 1..Len(findall(feature_elem, "A", "group")) |->
        ParameterGroup(
            text_or_empty(find(findall(feature_elem, "A", "group")[i], "A", "title")),
            _get_parameters_from_group(findall(feature_elem, "A", "group")[i]))]

features_of(features_elem) ==
    [i \in 1..Len(findall(features_elem, "A", "feature")) |->
        Feature(text_or_empty(find(findall(features_elem, "A", "feature")[i],
                                   "A", "title")),
                _get_parameter_groups(findall(features_elem, "A", "feature")[i]))]

_get_features(root) ==
    IF find(root, "A", "features") = None THEN <<>>
    ELSE features_of(find(root, "A", "features"))

\* lines 238-252 of read_from_xml_string: the entry of a parsed document;
\* the exception of _get_family leaves the method (_validate_cleaned_data
\* only reads the entry)
entry_with(root, clock, family) ==
    IF family.raises # "" THEN family
    ELSE Returns(RevitFamilyEntry(_get_title(root), _get_id(root),
                                  _get_updated(root, clock), _get_taxonomies(root),
                                  _get_categories(root), _get_links(root, clock),
                                  _get_features(root), family.value))

read_entry(root, clock) == entry_with(root, clock, _get_family(root))

\* the factory's _create_parameters: the keys with None are taken out of
\* each dict, and get() gives None for them again
_create_parameters(parameters_data) ==
    [i \in 1..Len(parameters_data) |->
        Parameter(IF parameters_data[i].name = NONE THEN ""
                  ELSE parameters_data[i].name,
                  parameters_data[i].display_name,
                  IF parameters_data[i].type = NONE THEN "custom"
                  ELSE parameters_data[i].type,
                  parameters_data[i].type_of_parameter,
                  parameters_data[i].units, parameters_data[i].value)]

_create_family_parts(parts_data) ==
    [i \in 1..Len(parts_data) |->
        FamilyPart(parts_data[i].name, parts_data[i].type,
                   _create_parameters(parts_data[i].parameters))]

\* the factory's _create_family: None for no data ("not family_data")
_create_family(family_data) ==
    IF family_data = None THEN None
    ELSE Family(family_data.type, family_data.variation_count,
                _create_family_parts(family_data.parts))

\* ------------------------------------------------------------------------
\* _validate_cleaned_data: what it logs, and how it ends
\* ------------------------------------------------------------------------

namespace_patterns ==
    <<"{http://www.w3.org/2005/Atom}", "{urn:schemas-autodesk-com:partatom}">>

RECURSIVE chain(_)
chain(lists) == IF lists = <<>> THEN <<>> ELSE Head(lists) \o chain(Tail(lists))

\* the inner loop: logger.warning(message) once for each pattern that is in
\* the name
warnings_for(message, name) ==
    [k \in 1..Len(SelectSeq(namespace_patterns,
                            LAMBDA pattern : Contains(name, pattern))) |->
        message \o name]

parameter_warnings(message, parameters) ==
    chain([i \in 1..Len(parameters) |-> warnings_for(message, parameters[i].name)])

feature_warnings(feature) ==
    chain([j \in 1..Len(feature.groups) |->
              parameter_warnings("Namespace-Prefix in Parameter gefunden: ",
                                 feature.groups[j].parameters)])

\* "if entry.family": a Family is true, None is not
family_warnings(family) ==
    IF family = None THEN <<>>
    ELSE chain([i \in 1..Len(family.parts) |->
                   parameter_warnings(
                       "Namespace-Prefix in Family Part Parameter gefunden: ",
                       family.parts[i].parameters)])

logged_warnings(entry) ==
    chain([i \in 1..Len(entry.features) |-> feature_warnings(entry.features[i])])
        \o family_warnings(entry.family)

\* a variant that raises for an entry with a match, for which
\* C22_ValidatorOnlyWarns fails
_validate_cleaned_data_strict(entry) ==
    IF logged_warnings(entry) # <<>> THEN Raises("ValueError")
    ELSE Returns(None) @@ [logged |-> logged_warnings(entry)]

\* the method returns None for every entry; what it logged goes with it
_validate_cleaned_data(entry) ==
    Returns(None) @@ [logged |-> logged_warnings(entry)]

\* ------------------------------------------------------------------------
\* The repository: _to_dict, the JSON document, _from_dict
\* ------------------------------------------------------------------------

\* str(n) of a number n >= 0, and the same with zeros in front up to a width
RECURSIVE decimal(_)
decimal(n) ==
    IF n < 10 THEN SubSeq("0123456789", n + 1, n + 1)
    ELSE decimal(n \div 10) \o SubSeq("0123456789", (n % 10) + 1, (n % 10) + 1)

RECURSIVE zfill(_, _)
zfill(text, width) == IF Len(text) >= width THEN text ELSE zfill("0" \o text, width)

\* the offset of isoformat(): sign, HH:MM, the seconds if there are any, and
\* the microseconds if there are any; abs is the offset without its sign
format_offset(sign, abs) ==
    sign \o zfill(decimal(abs.seconds \div 3600), 2) \o ":"
         \o zfill(decimal((abs.seconds % 3600) \div 60), 2)
         \o (IF abs.seconds % 60 # 0 \/ abs.microseconds # 0
             THEN ":" \o zfill(decimal(abs.seconds % 60), 2) ELSE "")
         \o (IF abs.microseconds # 0
             THEN "." \o zfill(decimal(abs.microseconds), 6) ELSE "")

\* a variant that writes no microseconds, for which C20_RoundTrip fails
isoformat_to_the_second(dt) ==
    zfill(decimal(dt.year), 4) \o "-" \o zfill(decimal(dt.month), 2) \o "-"
        \o zfill(decimal(dt.day), 2) \o "T" \o zfill(decimal(dt.hour), 2) \o ":"
        \o zfill(decimal(dt.minute), 2) \o ":" \o zfill(decimal(dt.second), 2)
        \o (IF dt.tzinfo = None THEN ""
            ELSE IF dt.tzinfo.utcoffset.days < 0
            THEN format_offset("-", timedelta(86400 - dt.tzinfo.utcoffset.seconds,
                                              0 - dt.tzinfo.utcoffset.microseconds))
            ELSE format_offset("+", dt.tzinfo.utcoffset))

\* datetime.isoformat(): the offset of a time before UTC is written as the
\* minus sign and the offset negated
isoformat(dt) ==
    zfill(decimal(dt.year), 4) \o "-" \o zfill(decimal(dt.month), 2) \o "-"
        \o zfill(decimal(dt.day), 2) \o "T" \o zfill(decimal(dt.hour), 2) \o ":"
        \o zfill(decimal(dt.minute), 2) \o ":" \o zfill(decimal(dt.second), 2)
        \o (IF dt.microsecond # 0
            THEN "." \o zfill(decimal(dt.microsecond), 6) ELSE "")
        \o (IF dt.tzinfo = None THEN ""
            ELSE IF dt.tzinfo.utcoffset.days < 0
            THEN format_offset("-", timedelta(86400 - dt.tzinfo.utcoffset.seconds,
                                              0 - dt.tzinfo.utcoffset.microseconds))
            ELSE format_offset("+", dt.tzinfo.utcoffset))

parameter_dict(p) ==
    [name |-> p.name, display_name |-> p.display_name, type |-> p.type,
     type_of_parameter |-> p.type_of_parameter, units |-> p.units,
     value |-> p.value]

parameter_dicts(parameters) ==
    [i \in 1..Len(parameters) |-> parameter_dict(parameters[i])]

\* the dict of an entry.  There is no key "taxonomies"
_to_dict(e) ==
    [name |-> e.name,
     id |-> e.id,
     updated |-> isoformat(e.updated),
     categories |-> [i \in 1..Len(e.categories) |-> [name |-> e.categories[i].name]],
     links |->
        [i \in 1..Len(e.links) |->
            [rel |-> e.links[i].rel,
             type |-> e.links[i].type,
             href |-> e.links[i].href,
             design_file |->
                IF e.links[i].design_file = None THEN None
                ELSE [name |-> e.links[i].design_file.name,
                      product |-> e.links[i].design_file.product,
                      product_version |-> e.links[i].design_file.product_version,
                      updated |-> isoformat(e.links[i].design_file.updated)]]],
     features |->
        [i \in 1..Len(e.features) |->
            [name |-> e.features[i].name,
             groups |->
                [j \in 1..Len(e.features[i].groups) |->
                    [name |-> e.features[i].groups[j].name,
                     parameters |->
                        parameter_dicts(e.features[i].groups[j].parameters)]]]],
     family |->
        IF e.family = None THEN None
        ELSE [type |-> e.family.type,
              variation_count |-> e.family.variation_count,
              parts |->
                 [i \in 1..Len(e.family.parts) |->
                     [name |-> e.family.parts[i].name,
                      type |-> e.family.parts[i].type,
                      parameters |->
                         parameter_dicts(e.family.parts[i].parameters)]]]]

\* The JSON document is kept as the tree of its objects and arrays; what is
\* written out and read back as text are its leaves: strings, numbers and
\* null.  Where an object or null may stand, null is JSON_null.
JSON_null == [json |-> "null"]

\* the JSON text of a str with ensure_ascii=False: quotes around it, and \\,
\* \", \n, \r and \t for the backslash, the quote and the control characters
json_string(s) ==
    "\"" \o Replace(Replace(Replace(Replace(Replace(s, "\\", "\\\\"),
                                            "\"", "\\\""),
                                    "\n", "\\n"),
                            "\r", "\\r"),
                    "\t", "\\t")
         \o "\""

\* the JSON text of a str or None
json_string_or_null(s) == IF s = NONE THEN "null" ELSE json_string(s)

\* the JSON text of an int
json_int(n) == IF n < 0 THEN "-" \o decimal(0 - n) ELSE decimal(n)

\* the character that an escape stands for
unescaped(c) ==
    CASE c = "n" -> "\n"
      [] c = "r" -> "\r"
      [] c = "t" -> "\t"
      [] OTHER -> c

\* the str of the inside of a JSON string from position i: each backslash
\* goes with the character after it; p is the position of the next backslash
RECURSIVE unescape_from(_, _)
unescape_at(s, i, p) ==
    IF p = 0 THEN From(s, i)
    ELSE Slice(s, i, p - 1) \o unescaped(CharAt(s, p + 1)) \o unescape_from(s, p + 2)

unescape_from(s, i) == unescape_at(s, i, FindFrom(s, "\\", i))

\* json.load of a leaf: the str of a string, None of null
load_string(text) ==
    IF text = "null" THEN NONE ELSE unescape_from(Slice(text, 2, Len(text) - 1), 1)

\* json.load of a leaf: the int of a number
load_int(text) ==
    IF CharAt(text, 1) = "-" THEN 0 - int_digits(From(text, 2), 0)
    ELSE int_digits(text, 0)

dump_parameters(parameters) ==
    [i \in 1..Len(parameters) |->
        [name |-> json_string(parameters[i].name),
         display_name |-> json_string_or_null(parameters[i].display_name),
         type |-> json_string(parameters[i].type),
         type_of_parameter |-> json_string_or_null(parameters[i].type_of_parameter),
         units |-> json_string_or_null(parameters[i].units),
         value |-> json_string_or_null(parameters[i].value)]]

\* json.dump(data, file, indent=2, ensure_ascii=False, default=str) of the
\* dict of _to_dict: null for None
json_dump(data) ==
    [name |-> json_string(data.name),
     id |-> json_string(data.id),
     updated |-> json_string(data.updated),
     categories |->
        [i \in 1..Len(data.categories) |->
            [name |-> json_string(data.categories[i].name)]],
     links |->
        [i \in 1..Len(data.links) |->
            [rel |-> json_string(data.links[i].rel),
             type |-> json_string(data.links[i].type),
             href |-> json_string(data.links[i].href),
             design_file |->
                IF data.links[i].design_file = None THEN JSON_null
                ELSE [name |-> json_string(data.links[i].design_file.name),
                      product |-> json_string(data.links[i].design_file.product),
                      product_version |->
                          json_string(data.links[i].design_file.product_version),
                      updated |-> json_string(data.links[i].design_file.updated)]]],
     features |->
        [i \in 1..Len(data.features) |->
            [name |-> json_string(data.features[i].name),
             groups |->
                [j \in 1..Len(data.features[i].groups) |->
                    [name |-> json_string(data.features[i].groups[j].name),
                     parameters |->
                        dump_parameters(data.features[i].groups[j].parameters)]]]],
     family |->
        IF data.family = None THEN JSON_null
        ELSE [type |-> json_string(data.family.type),
              variation_count |-> json_int(data.family.variation_count),
              parts |->
                 [i \in 1..Len(data.family.parts) |->
                     [name |-> json_string(data.family.parts[i].name),
                      type |-> json_string(data.family.parts[i].type),
                      parameters |->
                         dump_parameters(data.family.parts[i].parameters)]]]]

\* lines 150-160 and 171-181: the parameters of a list of objects; get()
\* gives None for null
load_parameters(parameters) ==
    [i \in 1..Len(parameters) |->
        Parameter(load_string(parameters[i].name),
                  load_string(parameters[i].display_name),
                  load_string(parameters[i].type),
                  load_string(parameters[i].type_of_parameter),
                  load_string(parameters[i].units),
                  load_string(parameters[i].value))]

\* the timestamps of a document: that of the entry, then those of the
\* design files
timestamps_of(doc) ==
    <<load_string(doc.updated)>>
    \o [i \in 1..Len(SelectSeq(doc.links, LAMBDA l : l.design_file # JSON_null)) |->
           load_string(SelectSeq(doc.links, LAMBDA l : l.design_file # JSON_null)[i]
                           .design_file.updated)]

\* the entry of a document whose timestamps fromisoformat accepts
entry_of(doc) ==
    RevitFamilyEntry(
        load_string(doc.name),
        load_string(doc.id),
        fromisoformat(load_string(doc.updated)).value,
        <<>>,
        [i \in 1..Len(doc.categories) |-> Category(load_string(doc.categories[i].name))],
        [i \in 1..Len(doc.links) |->
            Link(load_string(doc.links[i].rel),
                 load_string(doc.links[i].type),
                 load_string(doc.links[i].href),
                 IF doc.links[i].design_file = JSON_null THEN None
                 ELSE DesignFile(
                          load_string(doc.links[i].design_file.name),
                          load_string(doc.links[i].design_file.product),
                          load_string(doc.links[i].design_file.product_version),
                          fromisoformat(
                              load_string(doc.links[i].design_file.updated)).value))],
        [i \in 1..Len(doc.features) |->
            Feature(load_string(doc.features[i].name),
                    [j \in 1..Len(doc.features[i].groups) |->
                        ParameterGroup(
                            load_string(doc.features[i].groups[j].name),
                            load_parameters(doc.features[i].groups[j].parameters))])],
        IF doc.family = JSON_null THEN None
        ELSE Family(load_string(doc.family.type),
                    load_int(doc.family.variation_count),
                    [i \in 1..Len(doc.family.parts) |->
                        FamilyPart(load_string(doc.family.parts[i].name),
                                   load_string(doc.family.parts[i].type),
                                   load_parameters(doc.family.parts[i].parameters))]))

\* _from_dict(json.load(file)) of a document that json_dump wrote: an
\* object for "design_file" or "family" is true, null is false; taxonomies
\* is the empty list; the ValueError of fromisoformat leaves the method
_from_dict(doc) ==
    IF \E i \in 1..Len(timestamps_of(doc)) :
           fromisoformat(timestamps_of(doc)[i]).raises # ""
    THEN Raises("ValueError")
    ELSE Returns(entry_of(doc))

\* ------------------------------------------------------------------------
\* The data that the JSON extractor makes of a document, and the factories.
\* A dict is a record of its keys.  The extractor's methods are the
\* reader's statement for statement, but that they make dicts, that a
\* timestamp is written with isoformat(), and that the parts of a family
\* are made
\* ------------------------------------------------------------------------

_extract_title(root) == text_or_empty(find(root, "atom", "title"))

_extract_id(root) == text_or_empty(find(root, "atom", "id"))

_extract_updated(root, clock) == isoformat(_get_updated(root, clock))

_extract_taxonomies(root) == _get_taxonomies(root)

design_file_data(design_file) ==
    IF design_file = None THEN None
    ELSE [name |-> design_file.name, product |-> design_file.product,
          product_version |-> design_file.product_version,
          updated |-> isoformat(design_file.updated)]

_extract_design_file(link_elem, clock) ==
    design_file_data(_get_design_file(link_elem, clock))

_extract_links(root, clock) ==
    [i \in 1..Len(findall(root, "atom", "link")) |->
        [rel |-> get(findall(root, "atom", "link")[i], "rel", ""),
         type |-> get(findall(root, "atom", "link")[i], "type", ""),
         href |-> get(findall(root, "atom", "link")[i], "href", ""),
         design_file |-> _extract_design_file(findall(root, "atom", "link")[i], clock)]]

_extract_parameter_groups(feature_elem) ==
    [i \in 1..Len(findall(feature_elem, "A", "group")) |->
        [name |-> text_or_empty(find(findall(feature_elem, "A", "group")[i],
                                     "A", "title")),
         parameters |->
             _extract_parameters_from_group(findall(feature_elem, "A", "group")[i])]]

extracted_features(features_elem) ==
    [i \in 1..Len(findall(features_elem, "A", "feature")) |->
        [name |-> text_or_empty(find(findall(features_elem, "A", "feature")[i],
                                     "A", "title")),
         groups |->
             _extract_parameter_groups(findall(features_elem, "A", "feature")[i])]]

_extract_features(root) ==
    IF find(root, "A", "features") = None THEN <<>>
    ELSE extracted_features(find(root, "A", "features"))

_extract_entry_data(root, clock) ==
    [name |-> _extract_title(root),
     id |-> _extract_id(root),
     updated |-> _extract_updated(root, clock),
     taxonomies |-> _extract_taxonomies(root),
     categories |-> _extract_categories(root),
     links |-> _extract_links(root, clock),
     features |-> _extract_features(root),
     family |-> _extract_family(root).value]

\* data.get(key, default)
dict_get(data, key, default) == IF key \in DOMAIN data THEN data[key] ELSE default

\* the factory's _parse_datetime: the clock's time for None, for "" and for
\* a text that fromisoformat rejects
_parse_datetime(date_str, clock) ==
    IF date_str = NONE \/ date_str = "" THEN clock
    ELSE IF fromisoformat(to_offset(date_str)).raises # "" THEN clock
    ELSE fromisoformat(to_offset(date_str)).value

_create_taxonomies(taxonomies_data) ==
    [i \in 1..Len(taxonomies_data) |->
        Taxonomy(dict_get(taxonomies_data[i], "term", ""),
                 dict_get(taxonomies_data[i], "label", ""))]

_create_categories(categories_data) ==
    [i \in 1..Len(categories_data) |->
        Category(dict_get(categories_data[i], "name", ""))]

_create_design_file(design_file_data_, clock) ==
    DesignFile(dict_get(design_file_data_, "name", ""),
               dict_get(design_file_data_, "product", ""),
               dict_get(design_file_data_, "product_version", ""),
               _parse_datetime(dict_get(design_file_data_, "updated", NONE), clock))

\* "if link_data.get("design_file")": None and the empty dict are not true
_create_links(links_data, clock) ==
    [i \in 1..Len(links_data) |->
        Link(dict_get(links_data[i], "rel", ""),
             dict_get(links_data[i], "type", ""),
             dict_get(links_data[i], "href", ""),
             IF dict_get(links_data[i], "design_file", None) \in {None, <<>>} THEN None
             ELSE _create_design_file(links_data[i].design_file, clock))]

_create_parameter_groups(groups_data) ==
    [i \in 1..Len(groups_data) |->
        ParameterGroup(dict_get(groups_data[i], "name", ""),
                       _create_parameters(dict_get(groups_data[i], "parameters", <<>>)))]

_create_features(features_data) ==
    [i \in 1..Len(features_data) |->
        Feature(dict_get(features_data[i], "name", ""),
                _create_parameter_groups(dict_get(features_data[i], "groups", <<>>)))]

create_revit_family_entry(data, clock) ==
    RevitFamilyEntry(dict_get(data, "name", ""),
                     dict_get(data, "id", ""),
                     _parse_datetime(dict_get(data, "updated", NONE), clock),
                     _create_taxonomies(dict_get(data, "taxonomies", <<>>)),
                     _create_categories(dict_get(data, "categories", <<>>)),
                     _create_links(dict_get(data, "links", <<>>), clock),
                     _create_features(dict_get(data, "features", <<>>)),
                     _create_family(dict_get(data, "family", None)))

\* the entry that the factory makes of the extractor's data of a document
created_entry(root, clock) ==
    Returns(create_revit_family_entry(_extract_entry_data(root, clock), clock))

\* str.strip() leaves nothing: every character is whitespace
PyWhitespace == {" ", "\n", "\t", "\r", "\f"}
stripped_empty(v) == \A i \in 1..Len(v) : CharAt(v, i) \in PyWhitespace

\* a variant that asks only for a name that is not "", for which
\* C26_RejectedOrCreated fails
name_must_not_be_empty_unstripped(v) ==
    IF v = "" THEN Raises("ValueError") ELSE Returns(v)

\* lines 210-215
name_must_not_be_empty(v) ==
    IF stripped_empty(v) THEN Raises("ValueError") ELSE Returns(v)

\* lines 217-224
validate_updated_format(v) ==
    IF fromisoformat(to_offset(v)).raises # "" THEN Raises("ValueError")
    ELSE Returns(v)

\* lines 201-203: a field of type str without a default: the key must be
\* there and hold a str
required_str(data, key) == key \in DOMAIN data /\ data[key] # NONE

\* lines 198-224, RevitFamilyEntrySchema(**data): the required fields, the
\* two validators, and the defaults of the other fields (the lists and dicts
\* of the data are of the types the schema names); pydantic's error for
\* a field that is missing, is no str or is refused by its validator
RevitFamilyEntrySchema(data) ==
    IF \E key \in {"name", "id", "updated"} : ~required_str(data, key)
    THEN Raises("pydantic.ValidationError")
    ELSE IF name_must_not_be_empty(data.name).raises # ""
    THEN Raises("pydantic.ValidationError")
    ELSE IF validate_updated_format(data.updated).raises # ""
    THEN Raises("pydantic.ValidationError")
    ELSE Returns([name |-> data.name, id |-> data.id, updated |-> data.updated,
                  taxonomies |-> dict_get(data, "taxonomies", <<>>),
                  categories |-> dict_get(data, "categories", <<>>),
                  links |-> dict_get(data, "links", <<>>),
                  features |-> dict_get(data, "features", <<>>),
                  family |-> dict_get(data, "family", None)])

\* schema.model_dump(): the dict of the fields
model_dump(schema) == schema

\* lines 240-246: every exception becomes the factory's ValidationError
validated_entry(schema, clock) ==
    IF schema.raises # "" THEN Raises("ValidationError")
    ELSE Returns(create_revit_family_entry(model_dump(schema.value), clock))

create_revit_family_entry_validated(data, clock) ==
    validated_entry(RevitFamilyEntrySchema(data), clock)

\* ------------------------------------------------------------------------
\* The service
\* ------------------------------------------------------------------------

\* object.attribute: AttributeError for an attribute that the object's class
\* does not have
getattr(object, attribute) ==
    IF attribute \in DOMAIN object THEN Returns(object[attribute])
    ELSE Raises("AttributeError")

\* lines 57-59 for one feature: group.title is read of every group, and a
\* ParameterGroup has the fields name and parameters (models.py lines 18-23)
RECURSIVE extend_from_groups(_, _, _, _)
extend_from_groups(groups, k, name, parameters) ==
    IF k > Len(groups) THEN Returns(parameters)
    ELSE IF getattr(groups[k], "title").raises # ""
    THEN getattr(groups[k], "title")
    ELSE extend_from_groups(groups, k + 1, name,
                            IF getattr(groups[k], "title").value = name
                            THEN parameters \o groups[k].parameters
                            ELSE parameters)

\* lines 55-60: the loop over the features
RECURSIVE extend_from_features(_, _, _, _)
extend_from_features(features, k, name, parameters) ==
    IF parameters.raises # "" \/ k > Len(features) THEN parameters
    ELSE extend_from_features(
             features, k + 1, name,
             extend_from_groups(features[k].groups, 1, name, parameters.value))

get_parameters_by_group(entry_, name) ==
    extend_from_features(entry_.features, 1, name, Returns(<<>>))

\* ------------------------------------------------------------------------
\* The extract command: ProcessingStats and the loop over the files
\* ------------------------------------------------------------------------

\* cli.py lines 68-75: the counters and the errors of a new ProcessingStats
ProcessingStats == [processed |-> 0, failed |-> 0, skipped |-> 0, errors |-> <<>>]

\* lines 77-79
add_processed(stats) == [stats EXCEPT !.processed = @ + 1]

\* a variant that notes the error and does not count it, for which
\* C24_EveryFileCountedOnce fails
add_failed_uncounted(stats, filename, error) ==
    [stats EXCEPT !.errors = Append(@, <<filename, error>>)]

\* lines 81-84
add_failed(stats, filename, error) ==
    [stats EXCEPT !.failed = @ + 1, !.errors = Append(@, <<filename, error>>)]

\* lines 86-88
add_skipped(stats) == [stats EXCEPT !.skipped = @ + 1]

\* lines 438-469, one pass of the loop for a file: an exception of
\* determine_output_path, of extract_and_save or of check_for_new_elements
\* is caught and counted as failed; a file whose JSON file exists is skipped
\* unless --force is given; a dry run counts the file as processed and
\* extracts nothing
stats_after(stats, rfa_file, force, dry_run) ==
    IF rfa_file.raised_by = "determine_output_path"
    THEN add_failed(stats, rfa_file.name, rfa_file.raised_by)
    ELSE IF rfa_file.json_exists /\ ~force THEN add_skipped(stats)
    ELSE IF dry_run THEN add_processed(stats)
    ELSE IF rfa_file.raised_by # ""
    THEN add_failed(stats, rfa_file.name, rfa_file.raised_by)
    ELSE add_processed(stats)

\* ------------------------------------------------------------------------
\* Inputs.  A file's bytes, and the text or bytes handed to
\* read_from_xml_string, are runs of a few chunks each
\* ------------------------------------------------------------------------

MaxBlobChunks == 4
MaxTextChunks == 3

\* a declaration, <entry> with and without a namespace, its closing tag,
\* another element with a namespace, a bare ampersand, and bytes outside
\* ASCII: C3 B7 is valid UTF-8 and valid Latin-1, with another text; between
\* tags both texts are well formed, in the name of <a../> only the Latin-1
\* text is
BlobChunks ==
    {XML_DECL_PLAIN, "<entry>", "<entry xmlns=\"u\">", "</entry>",
     "<f xmlns=\"u\"></f>", "&", "@}", "<a@}/>"}

\* for read_from_xml_string and _repair_xml: markup, a bare ampersand, a bare
\* "<", a control character, and the byte FF, which is no UTF-8
TextChunks ==
    {XML_DECL_PLAIN, "<entry>", "<entry xmlns=\"u\">", "</entry>", "&", "< ",
     "\f", "~"}

\* the clock during a call: datetime.now() is a local time without offset
Clock == {datetime(2025, 6, 1, 12, 0, 0, 250000, None)}

\* the children of a parameter group or of a family part: tags in no
\* namespace, in the namespace of Atom, in the vendor's and in another one,
\* named title in some spelling or not; with no attribute and no text, with
\* all the attributes a Parameter has, or with an empty attribute, one
\* attribute that is none of a Parameter's and a text with blanks
MaxChildren == 2

ParameterTags ==
    {"Width", "Title", "TITLE", "{http://www.w3.org/2005/Atom}title",
     "{http://www.w3.org/2005/Atom}Width",
     "{urn:schemas-autodesk-com:partatom}title",
     "{urn:schemas-autodesk-com:partatom}Width", "{urn:other}Height"}

ParameterShapes ==
    {[attrib |-> <<>>, text |-> NONE],
     [attrib |-> [displayName |-> "W", type |-> "system",
                  typeOfParameter |-> "Length", units |-> "mm"],
      text |-> "100"],
     [attrib |-> [type |-> "", Units |-> "mm"], text |-> " 007 "]}

ParameterChildren ==
    {Element(tag, shape.attrib, shape.text, <<>>) :
        tag \in ParameterTags, shape \in ParameterShapes}

SeqsOf(S, max) == UNION {[1..n -> S] : n \in 0..max}

Groups ==
    {Element(qualified("A", "group"), <<>>, NONE, children) :
        children \in SeqsOf(ParameterChildren, MaxChildren)}

Parts ==
    {Element(qualified("A", "part"), [type |-> "user"], NONE, children) :
        children \in SeqsOf(ParameterChildren, MaxChildren)}

\* the entry element with or without a family.  A family has the attribute
\* type or not, A:variationCount or not, with no text, with integers as int
\* reads them and with texts that are none, and up to MaxParts parts, bare
\* or with a type, a title and a child
MaxParts == 2

VariationTexts == {NONE, "12", "abc", "-3", " 7 ", "1_0", "1.5", "+"}

PartElements ==
    {Element(qualified("A", "part"), <<>>, NONE, <<>>),
     Element(qualified("A", "part"), [type |-> "system"], NONE,
             <<Element(qualified("atom", "title"), <<>>, "P1", <<>>),
               Element("Width", <<>>, "100", <<>>)>>)}

FamilyElements ==
    {Element(qualified("A", "family"), attrib, NONE, count \o parts) :
        attrib \in {<<>>, [type |-> "system"]},
        count \in {<<>>} \cup {<<Element(qualified("A", "variationCount"),
                                        <<>>, text, <<>>)>> :
                                   text \in VariationTexts},
        parts \in SeqsOf(PartElements, MaxParts)}

FamilyRoots ==
    {Element(qualified("atom", "entry"), <<>>, NONE, children) :
        children \in {<<>>} \cup {<<family>> : family \in FamilyElements}}

\* the texts of an updated element: timestamps with Z, with an offset and
\* without one, with a fraction of one and of seven digits, a date alone, the
\* basic format, a week date, a blank for the T, an ordinal date, a leap
\* second, the hour 24, a day that no month has, a text that is no date,
\* a blank before the date, a small z, a date with Z, and no text
UpdatedTexts ==
    {"2024-01-15T10:30:00Z", "2024-01-15T10:30:00+01:00",
     "2024-01-15T10:30:00-05:30", "2024-01-15T10:30:00",
     "2024-01-15T10:30:00.5Z", "2024-01-15T10:30:00.1234567Z", "2024-01-15",
     "20240115T103000Z", "2024-W03-1T10:30:00Z", "2024-01-15 10:30:00Z",
     "2024-015T10:30:00Z", "2016-12-31T23:59:60Z", "2024-01-15T24:00:00Z",
     "2024-02-30T10:30:00Z", "not-a-date", " 2024-01-15T10:30:00Z",
     "2024-01-15T10:30:00z", "2024-01-15Z", NONE}

\* the entry element with up to two updated elements, of Atom or of the
\* vendor's namespace
UpdatedRoots ==
    {Element(qualified("atom", "entry"), <<>>, NONE, children) :
        children \in
            {<<>>}
            \cup {<<Element(qualified(prefix, "updated"), <<>>, text, <<>>)>> :
                     prefix \in {"atom", "A"}, text \in UpdatedTexts}
            \cup {<<Element(qualified("atom", "updated"), <<>>, text, <<>>),
                    Element(qualified("atom", "updated"), <<>>,
                            "2001-02-03T04:05:06Z", <<>>)>> :
                     text \in {"not-a-date", "2024-01-15T10:30:00Z"}}}

\* A:design-file elements: empty, with A:updated alone, with title, product
\* and version, with and without texts, and with children of other names
DesignFileElements ==
    {Element(qualified("A", "design-file"), <<>>, NONE, children) :
        children \in
            {<<>>}
            \cup {<<Element(qualified("A", "updated"), <<>>, text, <<>>)>> :
                     text \in UpdatedTexts}
            \cup {<<Element(qualified("A", "title"), <<>>, "door.rfa", <<>>),
                    Element(qualified("A", "product"), <<>>, "Revit", <<>>),
                    Element(qualified("A", "product-version"), <<>>, "2024", <<>>),
                    Element(qualified("A", "updated"), <<>>,
                            "2024-01-15T10:30:00Z", <<>>)>>,
                  <<Element(qualified("A", "title"), <<>>, NONE, <<>>),
                    Element(qualified("A", "product-version"), <<>>, " 24 ", <<>>)>>,
                  <<Element(qualified("atom", "title"), <<>>, "door.rfa", <<>>),
                    Element(qualified("atom", "updated"), <<>>,
                            "2024-01-15T10:30:00Z", <<>>),
                    Element(qualified("A", "product"), <<>>, "Revit", <<>>),
                    Element(qualified("A", "product"), <<>>, "Other", <<>>)>>}}

\* atom:link elements: without attributes, with all three, with one and a
\* name in capitals; without a child, with a design file, with a design file
\* of Atom's namespace, and with a design file inside another child
LinkElements ==
    {Element(qualified("atom", "link"), attrib, NONE, children) :
        attrib \in {<<>>,
                    [rel |-> "design-2d", type |-> "application/rfa",
                     href |-> "."],
                    [rel |-> "", Href |-> "x"]},
        children \in
            {<<>>,
             <<Element(qualified("atom", "design-file"), <<>>, NONE, <<>>)>>,
             <<Element(qualified("A", "wrapper"), <<>>, NONE,
                       <<Element(qualified("A", "design-file"), <<>>, NONE, <<>>)>>)>>}
            \cup {<<file>> : file \in DesignFileElements}}

MaxCategories == 2

\* atom:category elements: with a term, with a term without text, without a
\* term, with a term of the vendor's namespace, with two terms; and an
\* element that is no atom:category
CategoryElements ==
    {Element(qualified("atom", "category"), <<>>, NONE, children) :
        children \in
            {<<>>,
             <<Element(qualified("atom", "term"), <<>>, "Doors", <<>>)>>,
             <<Element(qualified("atom", "term"), <<>>, NONE, <<>>)>>,
             <<Element(qualified("A", "term"), <<>>, "Doors", <<>>)>>,
             <<Element(qualified("atom", "scheme"), <<>>, "adsk:revit", <<>>),
               Element(qualified("atom", "term"), <<>>, "Walls", <<>>),
               Element(qualified("atom", "term"), <<>>, "Doors", <<>>)>>}}
    \cup {Element(qualified("A", "category"), <<>>, NONE,
                  <<Element(qualified("atom", "term"), <<>>, "Doors", <<>>)>>)}

CategoryRoots ==
    {Element(qualified("atom", "entry"), <<>>, NONE, children) :
        children \in SeqsOf(CategoryElements, MaxCategories)}

MaxTaxonomies == 2

\* A:taxonomy elements: with term and label, with one of them, with neither,
\* with both and no texts, with label before term; and an element that is no
\* A:taxonomy
TaxonomyElements ==
    {Element(qualified("A", "taxonomy"), <<>>, NONE, children) :
        children \in
            {<<>>,
             <<Element(qualified("atom", "term"), <<>>, "adsk:revit", <<>>),
               Element(qualified("atom", "label"), <<>>, "Autodesk Revit", <<>>)>>,
             <<Element(qualified("atom", "term"), <<>>, "adsk:revit", <<>>)>>,
             <<Element(qualified("atom", "label"), <<>>, "Autodesk Revit", <<>>)>>,
             <<Element(qualified("atom", "term"), <<>>, NONE, <<>>),
               Element(qualified("atom", "label"), <<>>, NONE, <<>>)>>,
             <<Element(qualified("atom", "label"), <<>>, "Grouping", <<>>),
               Element(qualified("A", "term"), <<>>, "x", <<>>),
               Element(qualified("atom", "term"), <<>>, "adsk:revit:grouping", <<>>)>>}}
    \cup {Element(qualified("atom", "taxonomy"), <<>>, NONE,
                  <<Element(qualified("atom", "term"), <<>>, "adsk:revit", <<>>),
                    Element(qualified("atom", "label"), <<>>, "Autodesk Revit", <<>>)>>)}

TaxonomyRoots ==
    {Element(qualified("atom", "entry"), <<>>, NONE, children) :
        children \in SeqsOf(TaxonomyElements, MaxTaxonomies)}

MaxLinks == 2

\* the entry element with up to MaxLinks children: links without a child,
\* with a design file that has all four children, with one that has a title
\* without text, and with a design file inside another child, each with the
\* attributes of LinkElements; and an element that is no atom:link
LinkRoots ==
    {Element(qualified("atom", "entry"), <<>>, NONE, children) :
        children \in
            SeqsOf({link \in LinkElements :
                        \/ link.children = <<>>
                        \/ Len(link.children[1].children) \in {1, 2, 4}
                           /\ link.children[1].children[1].tag
                                  \in {qualified("A", "title"),
                                       qualified("A", "design-file")}}
                   \cup {Element(qualified("A", "link"), [rel |-> "related"],
                                 NONE, <<>>)},
                   MaxLinks)}

\* The documents whose entries are saved: the entry element with, in this
\* order, a title and an id or neither (the title with a quote, a backslash
\* before an n, a tab and a line break); no updated or one with Z, with an
\* offset before UTC, with a fraction and no offset, or with a text that is
\* no date; a taxonomy and two categories or none; no link, a link without
\* attributes and a link with a design file, or a link with a design file
\* that has no timestamp; features with groups and parameters or none; and
\* no family, a family without parts, or a family with two parts
EntryHeads ==
    {<<>>,
     <<Element(qualified("atom", "title"), <<>>, "Door \"A\" C:\\new\t1\n", <<>>),
       Element(qualified("atom", "id"), <<>>, "urn:uuid:1", <<>>)>>}

EntryUpdated ==
    {<<>>} \cup {<<Element(qualified("atom", "updated"), <<>>, text, <<>>)>> :
                    text \in {"2024-01-15T10:30:00Z", "2024-01-15T10:30:00-05:30",
                              "2024-01-15T10:30:00.5", "not-a-date"}}

EntryTerms ==
    {<<>>,
     <<Element(qualified("A", "taxonomy"), <<>>, NONE,
               <<Element(qualified("atom", "term"), <<>>, "adsk:revit", <<>>),
                 Element(qualified("atom", "label"), <<>>, "Autodesk Revit", <<>>)>>),
       Element(qualified("atom", "category"), <<>>, NONE,
               <<Element(qualified("atom", "term"), <<>>, "Doors", <<>>)>>),
       Element(qualified("atom", "category"), <<>>, NONE,
               <<Element(qualified("atom", "term"), <<>>, NONE, <<>>)>>)>>}

EntryLinks ==
    {<<>>,
     <<Element(qualified("atom", "link"), <<>>, NONE, <<>>),
       Element(qualified("atom", "link"),
               [rel |-> "design-2d", type |-> "application/rfa", href |-> "."],
               NONE,
               <<Element(qualified("A", "design-file"), <<>>, NONE,
                   <<Element(qualified("A", "title"), <<>>, "door.rfa", <<>>),
                     Element(qualified("A", "product"), <<>>, "Revit", <<>>),
                     Element(qualified("A", "product-version"), <<>>, "2024", <<>>),
                     Element(qualified("A", "updated"), <<>>,
                             "2023-12-31T23:59:59.000001+01:00", <<>>)>>)>>)>>,
     <<Element(qualified("atom", "link"), [href |-> "x"], NONE,
               <<Element(qualified("A", "design-file"), <<>>, NONE, <<>>)>>)>>}

EntryFeatures ==
    {<<>>,
     <<Element(qualified("A", "features"), <<>>, NONE,
         <<Element(qualified("A", "feature"), <<>>, NONE,
             <<Element(qualified("A", "title"), <<>>, "Dimensions", <<>>),
               Element(qualified("A", "group"), <<>>, NONE,
                 <<Element(qualified("A", "title"), <<>>, "Size", <<>>),
                   Element("Width",
                           [displayName |-> "Width", type |-> "system",
                            typeOfParameter |-> "Length", units |-> "mm"],
                           "900", <<>>),
                   Element("Note", <<>>, NONE, <<>>)>>),
               Element(qualified("A", "group"), <<>>, NONE, <<>>)>>),
           Element(qualified("A", "feature"), <<>>, NONE, <<>>)>>)>>}

EntryFamilies ==
    {<<>>,
     <<Element(qualified("A", "family"), <<>>, NONE, <<>>)>>,
     <<Element(qualified("A", "family"), [type |-> "system"], NONE,
         <<Element(qualified("A", "variationCount"), <<>>, "-3", <<>>)>>)>>,
     <<Element(qualified("A", "family"), [type |-> "user"], NONE,
         <<Element(qualified("A", "variationCount"), <<>>, "12", <<>>),
           Element(qualified("A", "part"), <<>>, NONE, <<>>),
           Element(qualified("A", "part"), [type |-> "system"], NONE,
             <<Element(qualified("atom", "title"), <<>>, "900 x 2100", <<>>),
               Element("Height", [units |-> "mm"], "2100", <<>>)>>)>>)>>}

EntryRoots ==
    {Element(qualified("atom", "entry"), <<>>, NONE,
             head \o updated \o terms \o links \o features \o family) :
        head \in EntryHeads, updated \in EntryUpdated, terms \in EntryTerms,
        links \in EntryLinks, features \in EntryFeatures,
        family \in EntryFamilies}

\* the entries of a document: the one read_from_xml_string returns, if it
\* returns, and the one the factory makes of the extractor's data
entries_if(outcome) == IF outcome.raises = "" THEN {outcome.value} ELSE {}

EntriesOf(root, clock) ==
    entries_if(read_entry(root, clock)) \cup entries_if(created_entry(root, clock))

\* documents for the validator: a group with up to MaxNamed children whose
\* tags are in no namespace, in the namespace of Atom, in another one, and in
\* a namespace whose URI begins with a brace (a URI with a closing brace is
\* no namespace name for the parser); without a family, with a family
\* without parts and with a family with a part
MaxNamed == 2

NamedTags ==
    {"Width", "{http://www.w3.org/2005/Atom}Width", "{urn:other}Height",
     "{{http://www.w3.org/2005/Atom}Depth",
     "{{urn:schemas-autodesk-com:partatom}Depth"}

NamedFamilies ==
    {<<>>,
     <<Element(qualified("A", "family"), <<>>, NONE, <<>>)>>,
     <<Element(qualified("A", "family"), <<>>, NONE,
         <<Element(qualified("A", "part"), <<>>, NONE,
             <<Element("{http://www.w3.org/2005/Atom}Width", <<>>, NONE, <<>>)>>)>>)>>}

NamedRoots ==
    {Element(qualified("atom", "entry"), <<>>, NONE,
         <<Element(qualified("A", "features"), <<>>, NONE,
             <<Element(qualified("A", "feature"), <<>>, NONE,
                 <<Element(qualified("A", "group"), <<>>, NONE,
                       [i \in 1..Len(tags) |->
                           Element(tags[i], <<>>, NONE, <<>>)])>>)>>)>>
         \o family) :
        tags \in SeqsOf(NamedTags, MaxNamed), family \in NamedFamilies}

\* entries for _validate_cleaned_data called by itself: parameters of a group
\* and of a family part whose names hold no bracketed namespace, one of the
\* two, both, and a bracketed namespace that is neither
ValidatorNames ==
    {"Width", "{http://www.w3.org/2005/Atom}Width",
     "x{urn:schemas-autodesk-com:partatom}",
     "{http://www.w3.org/2005/Atom}{urn:schemas-autodesk-com:partatom}y",
     "{urn:other}Height"}

named_parameters(names) ==
    [i \in 1..Len(names) |-> Parameter(names[i], NONE, "custom", NONE, NONE, NONE)]

ValidatorFamilies ==
    {None, Family("user", 0, <<>>)}
        \cup {Family("user", 1, <<FamilyPart("P", "user", named_parameters(<<name>>))>>) :
                 name \in ValidatorNames}

ValidatorEntries(clock) ==
    {RevitFamilyEntry("", "", clock, <<>>, <<>>, <<>>,
                      <<Feature("F", <<ParameterGroup("G", named_parameters(names))>>)>>,
                      family) :
        names \in SeqsOf(ValidatorNames, MaxNamed), family \in ValidatorFamilies}

RECURSIVE Concat(_)
Concat(seq) == IF seq = <<>> THEN "" ELSE Head(seq) \o Concat(Tail(seq))

RunsOf(chunks, max) ==
    {Concat(seq) : seq \in UNION {[1..n -> chunks] : n \in 0..max}}

\* documents of an entry, the namespaces declared as default namespaces: with
\* a title, a timestamp and a parameter in a group; without a title; with a
\* family that has a part; and with a bare ampersand in the title, which the
\* parser rejects and the repair escapes
EntryTexts ==
    {"<entry xmlns=\"" \o NAMESPACES.atom \o "\"><title>T</title>"
         \o "<updated>2024-01-15T10:30:00Z</updated>"
         \o "<features xmlns=\"" \o NAMESPACES.A \o "\"><feature><group>"
         \o "<Width xmlns=\"\" units=\"mm\">9</Width>"
         \o "</group></feature></features></entry>",
     "<entry xmlns=\"" \o NAMESPACES.atom \o "\"><id>1</id></entry>",
     "<entry xmlns=\"" \o NAMESPACES.atom \o "\"><title>T</title>"
         \o "<family xmlns=\"" \o NAMESPACES.A \o "\"><part/></family></entry>",
     "<entry xmlns=\"" \o NAMESPACES.atom \o "\"><title>a & b</title></entry>"}

\* files with such a document: after bytes that are no text, with and
\* without a declaration before it
EntryBlobs ==
    {prefix \o text : prefix \in {"", "@}", "~" \o XML_DECL_PLAIN},
                      text \in EntryTexts}

\* the data given to the validated factory: what the JSON extractor makes
\* of a document, and the data of one document with another name, another id
\* (None is no str), another updated text, or without one of its keys
ValidatedNames == {"T", "", " ", " \t\n", " a "}

longest(sequences) ==
    CHOOSE s \in sequences : \A other \in sequences : Len(other) <= Len(s)

FullData(clock) ==
    _extract_entry_data(
        Element(qualified("atom", "entry"), <<>>, NONE,
                longest(EntryHeads) \o longest(EntryUpdated) \o longest(EntryTerms)
                    \o longest(EntryLinks) \o longest(EntryFeatures)
                    \o longest(EntryFamilies)),
        clock)

without_key(data_, key) == [k \in DOMAIN data_ \ {key} |-> data_[k]]

\* the documents with a head and a timestamp and nothing else
PlainRoots ==
    {Element(qualified("atom", "entry"), <<>>, NONE, head \o updated) :
        head \in EntryHeads, updated \in EntryUpdated}

ValidatedDatas(clock) ==
    {_extract_entry_data(root, clock) : root \in PlainRoots}
    \cup {[FullData(clock) EXCEPT !.name = name_, !.id = id_, !.updated = updated_] :
             name_ \in ValidatedNames, id_ \in {"1", NONE},
             updated_ \in UpdatedTexts \cup {""}}
    \cup {without_key(FullData(clock), key) : key \in DOMAIN FullData(clock)}

\* bytes for read_from_xml_string: 8A between tags in a text of odd length
\* (no UTF-8 and no UTF-16; Latin-1 and CP1252 decode it differently), the
\* same in a text of even length (UTF-16 decodes it), C3 B7 in a name (the
\* UTF-8 text does not parse, the Latin-1 text does) and between tags
EncodedTexts ==
    {"<entry>^^</entry>", "<entry>^</entry>", "<a@}/>", "<entry>@}</entry>"}

\* entries for the service: the entry of a document, and the same entry with
\* no feature, with a feature without groups, and with two features that
\* have a group of the same name
ServiceFeatures ==
    {<<>>,
     <<Feature("Dimensions", <<>>)>>,
     <<Feature("Dimensions",
               <<ParameterGroup("Size", <<Parameter("Width", NONE, "custom", NONE,
                                                    "mm", "900")>>),
                 ParameterGroup("Other", <<Parameter("Note", NONE, "custom", NONE,
                                                     NONE, NONE)>>)>>),
       Feature("Materials",
               <<ParameterGroup("Size", <<Parameter("Depth", NONE, "custom", NONE,
                                                    NONE, "40")>>)>>)>>}

ServiceEntries(clock) ==
    {create_revit_family_entry(FullData(clock), clock)}
    \cup {[create_revit_family_entry(FullData(clock), clock)
              EXCEPT !.features = features] : features \in ServiceFeatures}

GroupNames == {"Size", "Other", ""}

\* the files of a batch: up to MaxFiles files, each with or without a JSON
\* file at its output path, and each with the call that raises for it, "" if
\* none does; the loop is entered with at least one file
MaxFiles == 3

FileKinds ==
    [json_exists : BOOLEAN,
     raised_by : {"", "determine_output_path", "extract_and_save"}]

Batches ==
    UNION {[1..n -> FileKinds] : n \in 1..MaxFiles}

\* the names of the files: their places in the list
named_files(kinds) ==
    [i \in 1..Len(kinds) |->
        [name |-> i, json_exists |-> kinds[i].json_exists,
         raised_by |-> kinds[i].raised_by]]

\* the texts given to the calls that run in parallel: the documents of an
\* entry, and a text that does not parse after the repair either
TaskTexts == EntryTexts \cup {"<entry>"}

\* two tasks, each with its own text
Tasks == {1, 2}

Blobs == RunsOf(BlobChunks, MaxBlobChunks)
Texts == RunsOf(TextChunks, MaxTextChunks)

\* ------------------------------------------------------------------------
\* State
\* ------------------------------------------------------------------------

VARIABLES
    call,          \* the method called
    file_exists,   \* file_path.exists()
    input,         \* the file's bytes, or the argument of the method
    is_bytes,      \* isinstance(xml_content, bytes) of that argument
    pc,            \* where the call is
    tried,         \* the tiers called so far, each with the text it returned
    xml_content,   \* the local xml_content
    parses,        \* calls of ET.fromstring made by read_from_xml_string
    repairs,       \* calls of _repair_xml
    raised,        \* the exception the call ended with, "" when none
    entry,         \* the text the returned entry was built from
    elem,          \* the element a method of the extraction is called with
    now,           \* what datetime.now() returns during the call
    result,        \* what that method returned
    saved,         \* the entry given to save
    json_file,     \* the JSON document in the file, None without a file
    loaded,        \* the entry that load returned
    built,         \* the entry before _validate_cleaned_data is called
    warnings,      \* what logger.warning was called with
    data,          \* the dict that a factory is called with
    created,       \* the entry that the factory returned
    family_entry,  \* the entry that the service is called with
    group_name,    \* the group name that the service is called with
    batch,         \* the extract command in its loop: files, options, stats
    tasks,         \* the calls of read_from_xml_string that run in parallel
    schedule,      \* the tasks in the order of their steps
    namespaces     \* the class attribute NAMESPACES, which the tasks share

vars == <<call, file_exists, input, is_bytes, pc, tried, xml_content, parses,
          repairs, raised, entry, elem, now, result, saved, json_file,
          loaded, built, warnings, data, created, family_entry, group_name,
          batch, tasks, schedule, namespaces>>

\* what the locator and the parsing methods leave alone, and what the
\* methods of the extraction leave alone
more_vars == <<built, warnings>>
task_vars == <<tasks, schedule, namespaces>>
caller_vars == <<data, created, family_entry, group_name, batch, task_vars>>
tree_vars == <<elem, now, result, saved, json_file, loaded, more_vars,
               caller_vars>>
repo_vars == <<saved, json_file, loaded, more_vars, caller_vars>>
text_vars == <<file_exists, input, is_bytes, tried, xml_content, parses,
               repairs, entry>>

\* the locator's tiers, in the order _extract_xml_from_binary names them
TIERS == <<"_find_complete_xml_document", "_find_entry_block",
           "_find_any_xml_block">>

\* the methods that parse a text, and the two copies of _repair_xml
PARSERS == {"read_from_xml_string", "XMLToJSONExtractor.extract_from_xml_string"}
REPAIRS == {"_repair_xml", "XMLToJSONExtractor._repair_xml"}

\* the methods that make the parameters of a group and of a part
GROUP_PARAMETERS ==
    {"_get_parameters_from_group",
     "XMLToJSONExtractor._extract_parameters_from_group"}
PART_PARAMETERS ==
    {"_get_parameters_from_part",
     "XMLToJSONExtractor._extract_parameters_from_part"}

\* the methods that make the family
FAMILY_METHODS == {"_get_family", "XMLToJSONExtractor._extract_family"}

\* the repository's methods
SAVE == "RevitFamilyJSONRepository.save"
LOAD == "RevitFamilyJSONRepository.load"

\* the JSON extractor's method for a text
EXTRACT == "XMLToJSONExtractor.extract_from_xml_string"

\* one document given to both pipelines: the JSON extractor and the factory
\* first, read_from_xml_string after them
PIPELINES == "create_revit_family_entry(extract_from_xml_string), read_from_xml_string"

\* the validated factory's method
VALIDATED == "ValidatedRevitFamilyFactory.create_revit_family_entry_validated"

\* the service's method
BY_GROUP == "RevitFamilyService.get_parameters_by_group"

\* the extract command from its loop on
EXTRACT_FAMILIES == "extract_families: for rfa_file in rfa_files"

\* read_from_xml_string called by each of the tasks
PARALLEL == "read_from_xml_string in parallel"

\* read_from_xml_string from line 238 on, with the root of the document
READ_ROOT == "read_from_xml_string: root"

\* the methods that make the categories
CATEGORY_METHODS == {"_get_categories", "XMLToJSONExtractor._extract_categories"}

\* a call of read_from_file on a path with or without a file, of the
\* generic-tag tier on a blob (read_from_file calls it only for the blobs the
\* other tiers find nothing in), of a parsing method on a str or on bytes, or
\* of _repair_xml on a str; of a method of the extraction on an element; of
\* save on an entry that the extraction made of a document, load following;
\* or of load on a path without a file
Init ==
    /\ now \in Clock
    /\ \/ /\ \/ /\ call = "read_from_file"
                /\ file_exists = TRUE
                /\ input \in Blobs \cup EntryBlobs
                /\ is_bytes = TRUE
             \/ /\ call = "read_from_file"
                /\ file_exists = FALSE
                /\ input = ""
                /\ is_bytes = TRUE
             \/ /\ call = "_find_any_xml_block"
                /\ file_exists = FALSE
                /\ input \in Blobs
                /\ is_bytes = TRUE
             \/ /\ call \in PARSERS
                /\ file_exists = FALSE
                /\ input \in Texts \cup EntryTexts
                /\ is_bytes \in BOOLEAN
             \/ /\ call \in PARSERS
                /\ file_exists = FALSE
                /\ input \in EncodedTexts
                /\ is_bytes = TRUE
             \/ /\ call \in REPAIRS
                /\ file_exists = FALSE
                /\ input \in Texts
                /\ is_bytes = FALSE
          /\ elem = None
          /\ saved = None
       \/ /\ \/ call \in GROUP_PARAMETERS /\ elem \in Groups
             \/ call \in PART_PARAMETERS /\ elem \in Parts
             \/ call \in FAMILY_METHODS /\ elem \in FamilyRoots
             \/ call = "_get_updated" /\ elem \in UpdatedRoots
             \/ call = "_get_design_file" /\ elem \in LinkElements
             \/ call \in CATEGORY_METHODS /\ elem \in CategoryRoots
             \/ call = "_get_taxonomies" /\ elem \in TaxonomyRoots
             \/ call = "_get_links" /\ elem \in LinkRoots
          /\ file_exists = FALSE
          /\ input = ""
          /\ is_bytes = FALSE
          /\ saved = None
       \/ /\ call = PIPELINES
          /\ elem \in EntryRoots
          /\ file_exists = FALSE
          /\ input = ""
          /\ is_bytes = FALSE
          /\ saved = None
       \/ /\ call = VALIDATED
          /\ elem = None
          /\ file_exists = FALSE
          /\ input = ""
          /\ is_bytes = FALSE
          /\ saved = None
       \/ /\ call = BY_GROUP
          /\ elem = None
          /\ file_exists = FALSE
          /\ input = ""
          /\ is_bytes = FALSE
          /\ saved = None
       \/ /\ call = EXTRACT_FAMILIES
          /\ elem = None
          /\ file_exists = FALSE
          /\ input = ""
          /\ is_bytes = FALSE
          /\ saved = None
       \/ /\ call = PARALLEL
          /\ elem = None
          /\ file_exists = FALSE
          /\ input = ""
          /\ is_bytes = FALSE
          /\ saved = None
       \/ /\ call = READ_ROOT
          /\ elem \in EntryRoots \cup NamedRoots
          /\ file_exists = FALSE
          /\ input = ""
          /\ is_bytes = FALSE
          /\ saved = None
       \/ /\ call = "_validate_cleaned_data"
          /\ elem = None
          /\ file_exists = FALSE
          /\ input = ""
          /\ is_bytes = FALSE
          /\ saved = None
       \/ /\ call = SAVE
          /\ elem \in EntryRoots
          /\ saved \in EntriesOf(elem, now)
          /\ file_exists = FALSE
          /\ input = ""
          /\ is_bytes = FALSE
       \/ /\ call = LOAD
          /\ elem = None
          /\ saved = None
          /\ file_exists = FALSE
          /\ input = ""
          /\ is_bytes = FALSE
    /\ pc = call
    /\ tried = <<>>
    /\ xml_content = NONE
    /\ parses = 0
    /\ repairs = 0
    /\ raised = ""
    /\ entry = NONE
    /\ result = NONE
    /\ json_file = None
    /\ loaded = None
    /\ IF call = "_validate_cleaned_data"
       THEN built \in ValidatorEntries(now)
       ELSE built = None
    /\ warnings = <<>>
    /\ IF call = VALIDATED
       THEN data \in ValidatedDatas(now)
       ELSE data = None
    /\ created = None
    /\ IF call = BY_GROUP
       THEN family_entry \in ServiceEntries(now) /\ group_name \in GroupNames
       ELSE family_entry = None /\ group_name = NONE
    /\ IF call = EXTRACT_FAMILIES
       THEN \E kinds \in Batches, force \in BOOLEAN, dry_run \in BOOLEAN :
                batch = [rfa_files |-> named_files(kinds), force |-> force,
                         dry_run |-> dry_run, done |-> 0,
                         stats |-> ProcessingStats, exit_code |-> None]
       ELSE batch = None
    /\ IF call = PARALLEL
       THEN \E texts \in [Tasks -> TaskTexts] :
                /\ texts[1] # texts[2]
                /\ tasks = [task \in Tasks |->
                                [argument |-> texts[task],
                                 pc |-> "read_from_xml_string",
                                 xml_content |-> NONE, root |-> None,
                                 outcome |-> None]]
       ELSE tasks = None
    /\ schedule = <<>>
    /\ namespaces = NAMESPACES

\* ------------------------------------------------------------------------
\* read_from_file and _extract_xml_from_binary
\* ------------------------------------------------------------------------

Raise(exception) ==
    /\ pc' = "raised"
    /\ raised' = exception

\* lines 45-50: the missing file; otherwise the bytes are read and
\* _extract_xml_from_binary is entered
ReadFromFile ==
    /\ pc = "read_from_file"
    /\ IF ~file_exists
       THEN Raise("FileNotFoundError")
       ELSE pc' = TIERS[1] /\ UNCHANGED raised
    /\ UNCHANGED tree_vars
    /\ UNCHANGED <<call, file_exists, input, is_bytes, tried, xml_content,
                   parses, repairs, entry>>

\* a variant that leaves out the entry-block tier, for which C1_TiersInOrder
\* fails
after_tier_skipping(tier, text) ==
    IF text # "" THEN "return"
    ELSE CASE tier = "_find_complete_xml_document" -> "_find_any_xml_block"
           [] tier = "_find_entry_block" -> "_find_any_xml_block"
           [] tier = "_find_any_xml_block" -> "return"

\* a variant that gives up after the entry-block tier, for which
\* C7_NotFoundOnlyAfterAllTiers fails
after_tier_giving_up(tier, text) ==
    IF text # "" THEN "return"
    ELSE CASE tier = "_find_complete_xml_document" -> "_find_entry_block"
           [] tier = "_find_entry_block" -> "return"
           [] tier = "_find_any_xml_block" -> "return"

\* what _extract_xml_from_binary does after a tier returned text: return it
\* when there is some, call the next tier when there is none, and return ""
\* after the last
after_tier(tier, text) ==
    IF text # "" THEN "return"
    ELSE CASE tier = "_find_complete_xml_document" -> "_find_entry_block"
           [] tier = "_find_entry_block" -> "_find_any_xml_block"
           [] tier = "_find_any_xml_block" -> "return"

\* a variant that never puts the declaration in front, for which
\* C3_FirstEntryRange fails
returned_text_unchanged(tier, text) == text

\* what _extract_xml_from_binary returns for the text a tier returned: the
\* entry block gets the declaration unless it starts with one
returned_text(tier, text) ==
    IF tier = "_find_entry_block" /\ text # ""
       /\ ~StartsWithAt(text, 1, "<?xml")
    THEN SYNTHETIC_DECL \o text
    ELSE text

\* one tier, with the text it returned: called by itself it returns; called
\* by _extract_xml_from_binary (lines 66-84) the text decides what follows
Tier(tier, text) ==
    /\ pc = tier
    /\ tried' = Append(tried, [tier |-> tier, text |-> text])
    /\ IF call = tier
       THEN /\ pc' = "done"
            /\ UNCHANGED xml_content
       ELSE IF after_tier(tier, text) = "return"
       THEN /\ xml_content' = returned_text(tier, text)
            /\ pc' = "extracted"
       ELSE /\ pc' = after_tier(tier, text)
            /\ UNCHANGED xml_content
    /\ UNCHANGED tree_vars
    /\ UNCHANGED <<call, file_exists, input, is_bytes, parses, repairs,
                   raised, entry>>

FindCompleteXmlDocument ==
    Tier("_find_complete_xml_document", _find_complete_xml_document(input))

FindEntryBlock == Tier("_find_entry_block", _find_entry_block(input))

FindAnyXmlBlock == Tier("_find_any_xml_block", _find_any_xml_block(input))

\* lines 55-58: nothing located is a ValueError; otherwise the text goes to
\* read_from_xml_string, as a str
Extracted ==
    /\ pc = "extracted"
    /\ IF xml_content = ""
       THEN Raise("ValueError")
       ELSE pc' = "parse" /\ UNCHANGED raised
    /\ UNCHANGED tree_vars
    /\ UNCHANGED <<call, file_exists, input, is_bytes, tried, xml_content,
                   parses, repairs, entry>>

\* ------------------------------------------------------------------------
\* read_from_xml_string, and extract_from_xml_string of the JSON extractor
\* ------------------------------------------------------------------------

\* lines 219-228: bytes are decoded under the first encoding that decodes
RECURSIVE first_decoding(_, _)
first_decoding(b, k) ==
    IF k > Len(ENCODINGS) THEN DecodeError
    ELSE IF decode(b, ENCODINGS[k]).ok THEN decode(b, ENCODINGS[k])
    ELSE first_decoding(b, k + 1)

ReadFromXmlString ==
    /\ pc \in PARSERS
    /\ IF ~is_bytes
       THEN /\ xml_content' = input
            /\ pc' = "parse"
            /\ UNCHANGED raised
       ELSE IF first_decoding(input, 1).ok
       THEN /\ xml_content' = first_decoding(input, 1).text
            /\ pc' = "parse"
            /\ UNCHANGED raised
       ELSE /\ Raise("ValueError")
            /\ UNCHANGED xml_content
    /\ UNCHANGED tree_vars
    /\ UNCHANGED <<call, file_exists, input, is_bytes, tried, parses, repairs,
                   entry>>

\* lines 231-232: the first ET.fromstring
Parse ==
    /\ pc = "parse"
    /\ parses' = parses + 1
    /\ pc' = IF ET_fromstring(xml_content) THEN "build" ELSE "repair"
    /\ UNCHANGED tree_vars
    /\ UNCHANGED <<call, file_exists, input, is_bytes, tried, xml_content,
                   repairs, raised, entry>>

\* self._repair_xml of the object the method belongs to
self_repair_xml(method, text) ==
    IF method = "XMLToJSONExtractor.extract_from_xml_string"
    THEN XMLToJSONExtractor_repair_xml(text)
    ELSE _repair_xml(text)

\* a variant that repairs once more when the second ET.fromstring fails, for
\* which C10_OneRepairThenError fails
RepairAndParseAgain ==
    /\ pc = "repair"
    /\ xml_content' = self_repair_xml(call, xml_content)
    /\ repairs' = repairs + 1
    /\ parses' = parses + 1
    /\ IF ET_fromstring(xml_content')
       THEN pc' = "build" /\ UNCHANGED raised
       ELSE IF repairs = 0
       THEN pc' = "repair" /\ UNCHANGED raised
       ELSE Raise("ParseError")
    /\ UNCHANGED tree_vars
    /\ UNCHANGED <<call, file_exists, input, is_bytes, tried, entry>>

\* lines 233-236: the except branch: one repair, one more ET.fromstring, whose
\* ParseError leaves the method
RepairAndParse ==
    /\ pc = "repair"
    /\ xml_content' = self_repair_xml(call, xml_content)
    /\ repairs' = repairs + 1
    /\ parses' = parses + 1
    /\ IF ET_fromstring(xml_content')
       THEN pc' = "build" /\ UNCHANGED raised
       ELSE Raise("ParseError")
    /\ UNCHANGED tree_vars
    /\ UNCHANGED <<call, file_exists, input, is_bytes, tried, entry>>

\* lines 238-252, and line 37 of the JSON extractor: the entry is made of the
\* root of the parsed text, the validator logs, and the entry is returned;
\* the extractor returns the data of the root.  An exception of _get_family
\* leaves the method before anything is built
EntryBuilt(root, outcome) ==
    /\ elem' = root
    /\ IF outcome.raises # ""
       THEN /\ Raise(outcome.raises)
            /\ UNCHANGED <<entry, result, built, warnings>>
       ELSE /\ built' = IF call = EXTRACT THEN None ELSE outcome.value
            /\ warnings' = IF call = EXTRACT THEN warnings
                           ELSE warnings \o _validate_cleaned_data(outcome.value).logged
            /\ result' = outcome.value
            /\ entry' = xml_content
            /\ pc' = "done"
            /\ UNCHANGED raised

BuildEntry ==
    /\ pc = "build"
    /\ EntryBuilt(ET_root(xml_content),
                  IF call = EXTRACT
                  THEN Returns(_extract_entry_data(ET_root(xml_content), now))
                  ELSE read_entry(ET_root(xml_content), now))
    /\ UNCHANGED <<now, saved, json_file, loaded>>
    /\ UNCHANGED caller_vars
    /\ UNCHANGED <<call, file_exists, input, is_bytes, tried, xml_content,
                   parses, repairs>>

\* ------------------------------------------------------------------------
\* _repair_xml called by itself
\* ------------------------------------------------------------------------

RepairXml ==
    /\ pc \in REPAIRS
    /\ xml_content' = IF call = "_repair_xml" THEN _repair_xml(input)
                      ELSE XMLToJSONExtractor_repair_xml(input)
    /\ repairs' = repairs + 1
    /\ pc' = "done"
    /\ UNCHANGED tree_vars
    /\ UNCHANGED <<call, file_exists, input, is_bytes, tried, parses, raised,
                   entry>>

\* ------------------------------------------------------------------------
\* The methods of the extraction, each called by itself with an element
\* ------------------------------------------------------------------------

Return(value) ==
    /\ result' = value
    /\ pc' = "done"
    /\ UNCHANGED <<call, raised, elem, now>>
    /\ UNCHANGED repo_vars
    /\ UNCHANGED text_vars

\* the call ends as the method did
Ends(outcome) ==
    IF outcome.raises = "" THEN Return(outcome.value)
    ELSE /\ Raise(outcome.raises)
         /\ UNCHANGED <<call, elem, now, result>>
         /\ UNCHANGED repo_vars
         /\ UNCHANGED text_vars

GetParameters ==
    /\ pc \in GROUP_PARAMETERS \cup PART_PARAMETERS
    /\ Return(CASE call = "_get_parameters_from_group" ->
                       _get_parameters_from_group(elem)
                 [] call = "XMLToJSONExtractor._extract_parameters_from_group" ->
                       _extract_parameters_from_group(elem)
                 [] call = "_get_parameters_from_part" ->
                       _get_parameters_from_part(elem)
                 [] call = "XMLToJSONExtractor._extract_parameters_from_part" ->
                       _extract_parameters_from_part(elem))

GetFamily ==
    /\ pc \in FAMILY_METHODS
    /\ Ends(IF call = "_get_family" THEN _get_family(elem)
            ELSE _extract_family(elem))

GetUpdated ==
    /\ pc = "_get_updated"
    /\ Return(_get_updated(elem, now))

GetDesignFile ==
    /\ pc = "_get_design_file"
    /\ Return(_get_design_file(elem, now))

GetCategories ==
    /\ pc \in CATEGORY_METHODS
    /\ Return(IF call = "_get_categories" THEN _get_categories(elem)
              ELSE _extract_categories(elem))

GetTaxonomies ==
    /\ pc = "_get_taxonomies"
    /\ Return(_get_taxonomies(elem))

GetLinks ==
    /\ pc = "_get_links"
    /\ Return(_get_links(elem, now))

\* ------------------------------------------------------------------------
\* The repository: save, then load of the file that save wrote, and load
\* of a path without a file
\* ------------------------------------------------------------------------

Save ==
    /\ pc = SAVE
    /\ json_file' = json_dump(_to_dict(saved))
    /\ file_exists' = TRUE
    /\ pc' = LOAD
    /\ UNCHANGED <<call, raised, elem, now, result, saved, loaded>>
    /\ UNCHANGED <<input, is_bytes, tried, xml_content, parses, repairs, entry>>
    /\ UNCHANGED <<more_vars, caller_vars>>

Loads(outcome) ==
    IF outcome.raises = ""
    THEN /\ loaded' = outcome.value
         /\ pc' = "done"
         /\ UNCHANGED raised
    ELSE /\ Raise(outcome.raises)
         /\ UNCHANGED loaded

Load ==
    /\ pc = LOAD
    /\ IF ~file_exists
       THEN Raise("FileNotFoundError") /\ UNCHANGED loaded
       ELSE Loads(_from_dict(json_file))
    /\ UNCHANGED <<call, elem, now, result, saved, json_file>>
    /\ UNCHANGED text_vars
    /\ UNCHANGED <<more_vars, caller_vars>>

\* ------------------------------------------------------------------------
\* read_from_xml_string after the document is parsed, and
\* _validate_cleaned_data called by itself
\* ------------------------------------------------------------------------

\* lines 238-247: the entry is made of the root; the NameError of
\* _get_family leaves the method
Built(outcome) ==
    IF outcome.raises # ""
    THEN Raise(outcome.raises) /\ UNCHANGED built
    ELSE /\ built' = outcome.value
         /\ pc' = "_validate_cleaned_data"
         /\ UNCHANGED raised

EntryOfRoot ==
    /\ pc = READ_ROOT
    /\ Built(read_entry(elem, now))
    /\ UNCHANGED <<call, elem, now, result, saved, json_file, loaded, warnings>>
    /\ UNCHANGED text_vars
    /\ UNCHANGED caller_vars

\* lines 250 and 254-279: the validator logs and returns None; line 252
\* follows in read_from_xml_string
Validated(outcome) ==
    IF outcome.raises # ""
    THEN Raise(outcome.raises) /\ UNCHANGED warnings
    ELSE /\ warnings' = warnings \o outcome.logged
         /\ pc' = IF call = "_validate_cleaned_data" THEN "done" ELSE "return entry"
         /\ UNCHANGED raised

ValidateCleanedData ==
    /\ pc = "_validate_cleaned_data"
    /\ Validated(_validate_cleaned_data(built))
    /\ UNCHANGED <<call, elem, now, result, saved, json_file, loaded, built>>
    /\ UNCHANGED text_vars
    /\ UNCHANGED caller_vars

\* line 252: return entry
ReturnEntry ==
    /\ pc = "return entry"
    /\ result' = built
    /\ pc' = "done"
    /\ UNCHANGED <<call, raised, elem, now, saved, json_file, loaded, built,
                   warnings>>
    /\ UNCHANGED text_vars
    /\ UNCHANGED caller_vars

\* ------------------------------------------------------------------------
\* The JSON extractor and the factory
\* ------------------------------------------------------------------------

\* line 37 of the JSON extractor: the data of the root
ExtractEntryData ==
    /\ pc = PIPELINES
    /\ data' = _extract_entry_data(elem, now)
    /\ pc' = "create_revit_family_entry"
    /\ UNCHANGED <<call, raised, elem, now, result, saved, json_file, loaded,
                   more_vars, created, family_entry, group_name, batch,
                   task_vars>>
    /\ UNCHANGED text_vars

\* lines 28-48 of the factory: the entry of the data; read_from_xml_string
\* is called with the same document next
CreateRevitFamilyEntry ==
    /\ pc = "create_revit_family_entry"
    /\ created' = create_revit_family_entry(data, now)
    /\ pc' = READ_ROOT
    /\ UNCHANGED <<call, raised, elem, now, result, saved, json_file, loaded,
                   more_vars, data, family_entry, group_name, batch, task_vars>>
    /\ UNCHANGED text_vars

\* lines 226-246 of the factory
CreateRevitFamilyEntryValidated ==
    /\ pc = VALIDATED
    /\ Ends(create_revit_family_entry_validated(data, now))

\* lines 53-60 of the service
GetParametersByGroup ==
    /\ pc = BY_GROUP
    /\ Ends(get_parameters_by_group(family_entry, group_name))

\* ------------------------------------------------------------------------
\* The loop of the extract command
\* ------------------------------------------------------------------------

\* lines 435-469: the next file of the list
ProcessFile ==
    /\ pc = EXTRACT_FAMILIES
    /\ batch.done < Len(batch.rfa_files)
    /\ batch' = [batch EXCEPT
                     !.done = @ + 1,
                     !.stats = stats_after(@, batch.rfa_files[batch.done + 1],
                                           batch.force, batch.dry_run)]
    /\ UNCHANGED <<call, pc, raised, elem, now, result, saved, json_file, loaded,
                   more_vars, data, created, family_entry, group_name, task_vars>>
    /\ UNCHANGED text_vars

\* lines 511-515: after the loop, typer.Exit(1) when a file failed
ExitCode ==
    /\ pc = EXTRACT_FAMILIES
    /\ batch.done = Len(batch.rfa_files)
    /\ batch' = [batch EXCEPT !.exit_code = IF batch.stats.failed > 0 THEN 1 ELSE 0]
    /\ pc' = "done"
    /\ UNCHANGED <<call, raised, elem, now, result, saved, json_file, loaded,
                   more_vars, data, created, family_entry, group_name, task_vars>>
    /\ UNCHANGED text_vars

\* ------------------------------------------------------------------------
\* Calls of read_from_xml_string that run in parallel, each step of a call
\* between any two steps of the other.  A call has its parameter xml_content
\* and its local root for itself; the class attribute NAMESPACES is read by
\* all of them and assigned by none
\* ------------------------------------------------------------------------

\* a variant in which every call keeps its text in the first task's variable,
\* for which C23_TasksShareNothing fails
xml_content_of_first(task) == 1

\* the task whose variable xml_content a task's call reads and assigns: its
\* own, the parameter of the call (lines 212-236)
xml_content_of(task) == task

TaskStep(task) ==
    /\ schedule' = Append(schedule, task)
    /\ UNCHANGED <<call, pc, raised, elem, now, result, saved, json_file, loaded,
                   more_vars, data, created, family_entry, group_name, batch,
                   namespaces>>
    /\ UNCHANGED text_vars

\* line 212: the call binds its parameter to the text (a str is not decoded)
TaskCall(task) ==
    /\ tasks[task].pc = "read_from_xml_string"
    /\ tasks' = [tasks EXCEPT
                     ![xml_content_of(task)].xml_content = tasks[task].argument,
                     ![task].pc = "parse"]
    /\ TaskStep(task)

\* lines 231-233: root = ET.fromstring(xml_content), or the except branch
TaskParse(task) ==
    /\ tasks[task].pc = "parse"
    /\ tasks' = IF ET_fromstring(tasks[xml_content_of(task)].xml_content)
                THEN [tasks EXCEPT
                         ![task].root =
                             ET_root(tasks[xml_content_of(task)].xml_content),
                         ![task].pc = "build"]
                ELSE [tasks EXCEPT ![task].pc = "repair"]
    /\ TaskStep(task)

\* the task's record after lines 234-236
task_repaired(task_, repaired) ==
    IF ET_fromstring(repaired)
    THEN [task_ EXCEPT !.root = ET_root(repaired), !.pc = "build"]
    ELSE [task_ EXCEPT !.outcome = Raises("ParseError"), !.pc = "raised"]

\* lines 234-236: the repair and the second ET.fromstring
TaskRepair(task) ==
    /\ tasks[task].pc = "repair"
    /\ tasks' = [[tasks EXCEPT
                      ![xml_content_of(task)].xml_content = _repair_xml(@)]
                  EXCEPT ![task] =
                      task_repaired(@, _repair_xml(
                          tasks[xml_content_of(task)].xml_content))]
    /\ TaskStep(task)

\* lines 238-252: the entry of the root, or the exception of _get_family
TaskBuild(task) ==
    /\ tasks[task].pc = "build"
    /\ tasks' = [tasks EXCEPT
                     ![task].outcome = read_entry(tasks[task].root, now),
                     ![task].pc = IF read_entry(tasks[task].root, now).raises = ""
                                  THEN "done" ELSE "raised"]
    /\ TaskStep(task)

ParallelCalls ==
    /\ pc = PARALLEL
    /\ \E task \in Tasks :
           \/ TaskCall(task)
           \/ TaskParse(task)
           \/ TaskRepair(task)
           \/ TaskBuild(task)

Next ==
    \/ ReadFromFile
    \/ FindCompleteXmlDocument
    \/ FindEntryBlock
    \/ FindAnyXmlBlock
    \/ Extracted
    \/ ReadFromXmlString
    \/ Parse
    \/ RepairAndParse
    \/ BuildEntry
    \/ RepairXml
    \/ GetParameters
    \/ GetFamily
    \/ GetUpdated
    \/ GetDesignFile
    \/ GetCategories
    \/ GetTaxonomies
    \/ GetLinks
    \/ Save
    \/ Load
    \/ EntryOfRoot
    \/ ValidateCleanedData
    \/ ReturnEntry
    \/ ExtractEntryData
    \/ CreateRevitFamilyEntry
    \/ CreateRevitFamilyEntryValidated
    \/ GetParametersByGroup
    \/ ProcessFile
    \/ ExitCode
    \/ ParallelCalls

Spec == Init /\ [][Next]_vars

\* ------------------------------------------------------------------------
\* Properties.  What the operators of this section say is what is claimed of
\* the program, stated without the program's loops
\* ------------------------------------------------------------------------

\* the order the encodings are said to be tried in
EncodingOrder == <<"utf-8", "utf-16", "latin-1", "cp1252">>

\* xml_bytes decodes under the k-th encoding, and the text parses behind prefix
DecodesAndParses(xml_bytes, prefix, k) ==
    /\ decode(xml_bytes, EncodingOrder[k]).ok
    /\ ET_fromstring(prefix \o decode(xml_bytes, EncodingOrder[k]).text)

\* the text of xml_bytes under the first encoding under which it decodes and
\* parses, "" when there is none
FirstValid(xml_bytes, prefix) ==
    IF xml_bytes # "" /\ \E k \in 1..4 : DecodesAndParses(xml_bytes, prefix, k)
    THEN decode(xml_bytes,
                EncodingOrder[CHOOSE k \in 1..4 :
                    /\ DecodesAndParses(xml_bytes, prefix, k)
                    /\ \A j \in 1..(k - 1) : ~DecodesAndParses(xml_bytes, prefix, j)]).text
    ELSE ""

Least(S) == CHOOSE p \in S : \A q \in S : p <= q

\* where pattern matches in b, and where closing occurs at or after p
MatchStarts(pattern, b) ==
    {p \in 1..Len(b) : re_match_end(pattern, b, p) # 0}

ClosingsFrom(b, closing, p) ==
    {j \in p..Len(b) : StartsWithAt(b, j, closing)}

\* the bytes from p through the end of the first closing after it
RangeFrom(b, p, closing) ==
    IF ClosingsFrom(b, closing, p) = {} THEN ""
    ELSE Slice(b, p, Least(ClosingsFrom(b, closing, p)) + Len(closing) - 1)

\* the bytes from the first match of pattern through the first closing
FirstRange(pattern, b, closing) ==
    IF MatchStarts(pattern, b) = {} THEN ""
    ELSE RangeFrom(b, Least(MatchStarts(pattern, b)), closing)

\* every text that some range of b, from a match of pattern through some later
\* closing, holds as UTF-8 and that parses behind prefix
DocumentsIn(pattern, b, closing, prefix) ==
    {decode_utf8(Slice(b, p, j + Len(closing) - 1)).text :
        <<p, j>> \in {<<p, j>> \in MatchStarts(pattern, b) \X (1..Len(b)) :
            /\ j \in ClosingsFrom(b, closing, p)
            /\ DecodesAndParses(Slice(b, p, j + Len(closing) - 1), prefix, 1)}}

\* the method that was called by itself has returned
Returned(method) == pc = "done" /\ call = method

\* read_from_file is at the point where the k-th tier has just returned
JustRan(k) ==
    /\ call = "read_from_file"
    /\ Len(tried) = k
    /\ pc \in {"_find_entry_block", "_find_any_xml_block", "extracted"}

\* the generic-tag tier has just returned, called by itself or as the third
\* tier of read_from_file
AnyBlockRan == Returned("_find_any_xml_block") \/ JustRan(3)

\* C1: _extract_xml_from_binary calls the tiers in the order declaration,
\* entry block, generic tag; a tier is called only when every tier before it
\* returned no text; the result is the text of the first tier that returned
\* some (the entry block's behind the declaration), and it is empty only when
\* all three returned none.
C1_TiersInOrder ==
    call = "read_from_file" =>
        /\ Len(tried) <= 3
        /\ \A k \in 1..Len(tried) :
               tried[k].tier = <<"_find_complete_xml_document",
                                 "_find_entry_block", "_find_any_xml_block">>[k]
        /\ \A k \in 1..(Len(tried) - 1) : tried[k].text = ""
        /\ pc = "extracted" =>
               /\ Len(tried) >= 1
               /\ IF tried[Len(tried)].text = ""
                  THEN Len(tried) = 3 /\ xml_content = ""
                  ELSE xml_content = IF Len(tried) = 2
                                     THEN SYNTHETIC_DECL \o tried[2].text
                                     ELSE tried[Len(tried)].text

\* the generic-tag tier found the text after the other two found none
C1_ThirdTierFound ==
    /\ call = "read_from_file"
    /\ pc = "extracted"
    /\ Len(tried) = 3
    /\ tried[3].text # ""

\* C2, as claimed: whenever the blob holds a well-formed declared document
\* between some declaration and some closing </entry>, the declaration tier
\* returns such a document.
C2_AnyDeclaredDocumentFound ==
    JustRan(1) =>
        (DocumentsIn(XML_START_PATTERN, input, "</entry>", "") # {} =>
            tried[1].text \in DocumentsIn(XML_START_PATTERN, input, "</entry>", ""))

\* C2, amended: the declaration tier looks at one range only, from the first
\* match of the declaration through the first </entry> after it.  It returns
\* the text of that range when it decodes and parses, and no text otherwise;
\* the text is returned as decoded, and read_from_file repairs nothing when
\* this tier found the text.
C2_FirstDeclarationRange ==
    /\ JustRan(1) =>
           /\ tried[1].text =
                  FirstValid(FirstRange(XML_START_PATTERN, input, "</entry>"), "")
           /\ repairs = 0
    /\ (call = "read_from_file" /\ Len(tried) >= 1 /\ tried[1].text # "") =>
           /\ repairs = 0
           /\ xml_content \in {NONE, tried[1].text}

\* the declaration tier returned a document that other bytes of the blob
\* precede
C2_DocumentFoundInBlob ==
    /\ JustRan(1)
    /\ tried[1].text # ""
    /\ ~StartsWithAt(input, 1, "<?xml")
    /\ Len(input) > Len(tried[1].text) + 1

\* C3, as claimed: whenever the blob holds no declaration and a valid
\* <entry ...>...</entry> block, the entry-block tier returns such a block.
C3_AnyEntryBlockFound ==
    JustRan(2) =>
        ((/\ MatchStarts(XML_START_PATTERN, input) = {}
          /\ DocumentsIn(ENTRY_START_PATTERN, input, "</entry>", SYNTHETIC_DECL) # {})
         => tried[2].text
                \in DocumentsIn(ENTRY_START_PATTERN, input, "</entry>", SYNTHETIC_DECL))

\* C3, amended: the entry-block tier looks at one range only, from the first
\* match of <entry ...> through the first </entry> after it.  It returns the
\* text of that range when it decodes and parses behind the declaration, and
\* no text otherwise; _extract_xml_from_binary returns the text this tier
\* found with the declaration <?xml version="1.0" encoding="UTF-8"?> and a
\* line feed in front.
C3_FirstEntryRange ==
    /\ JustRan(2) =>
           tried[2].text =
               FirstValid(FirstRange(ENTRY_START_PATTERN, input, "</entry>"),
                          SYNTHETIC_DECL)
    /\ (call = "read_from_file" /\ pc = "extracted" /\ Len(tried) = 2) =>
           xml_content =
               IF tried[2].text = "" THEN ""
               ELSE "<?xml version=\"1.0\" encoding=\"UTF-8\"?>\n" \o tried[2].text

\* _extract_xml_from_binary returned an entry block behind the declaration
C3_EntryBlockReturned ==
    /\ call = "read_from_file"
    /\ pc = "extracted"
    /\ Len(tried) = 2
    /\ tried[2].text # ""
    /\ MatchStarts(XML_START_PATTERN, input) = {}

\* the candidate range decodes, does not parse behind prefix, and parses
\* after one repair pass
Repairable(xml_bytes, prefix) ==
    /\ xml_bytes # ""
    /\ first_decoding(xml_bytes, 1).ok
    /\ ~ET_fromstring(prefix \o first_decoding(xml_bytes, 1).text)
    /\ ET_fromstring(prefix \o _repair_xml(first_decoding(xml_bytes, 1).text))

\* C4, as claimed: in every tier a candidate range that decodes and does not
\* parse is repaired once and parsed again, so that a range that parses after
\* the repair is found.
C4_RepairedCandidateFound ==
    /\ JustRan(1) =>
           (Repairable(complete_xml_bytes(input), "") => tried[1].text # "")
    /\ JustRan(2) =>
           (Repairable(entry_block_bytes(input), SYNTHETIC_DECL)
                => tried[2].text # "")
    /\ AnyBlockRan =>
           ((\E k \in 1..3 : \E p \in MatchStarts(GENERIC_PATTERNS[k], input) :
                 Repairable(any_block_bytes(input, p), SYNTHETIC_DECL))
                => tried[Len(tried)].text # "")

\* the text the generic-tag tier has for the match at p: its range, from p
\* through the first closing tag of the match's name, decoded and parsed
\* behind the declaration
AnyBlockAt(b, p) ==
    IF FirstValid(RangeFrom(b, p, "</" \o tag_name_at(b, p) \o ">"),
                  SYNTHETIC_DECL) = ""
    THEN ""
    ELSE SYNTHETIC_DECL
         \o FirstValid(RangeFrom(b, p, "</" \o tag_name_at(b, p) \o ">"),
                       SYNTHETIC_DECL)

\* the matches of the k-th pattern, and those whose range is valid
PatternMatches(b, k) ==
    MatchStarts(<<"<entry[^>]*xmlns[^>]*>", "<\\w+[^>]*xmlns[^>]*>",
                  "<entry[^>]*>">>[k], b)

ValidMatches(b, k) == {p \in PatternMatches(b, k) : AnyBlockAt(b, p) # ""}

\* C5: the generic-tag tier takes its patterns in the order entry tag with
\* xmlns, any tag with xmlns, bare entry tag, and for each pattern every match
\* in the order of position; the range of a match ends with the first closing
\* tag of the match's own name; the tier returns the first range that is
\* valid, and a match without closing tag or with an invalid range is passed
\* over.
C5_EveryMatchInPriorityOrder ==
    AnyBlockRan =>
        tried[Len(tried)].text =
            IF \A k \in 1..3 : ValidMatches(input, k) = {} THEN ""
            ELSE AnyBlockAt(input,
                     Least(ValidMatches(input,
                         Least({k \in 1..3 : ValidMatches(input, k) # {}}))))

\* the generic-tag tier returned the range of a match of a pattern of higher
\* priority although a pattern of lower priority has a valid match, with
\* another text, at an earlier position
C5_HigherPriorityLaterPosition ==
    /\ AnyBlockRan
    /\ tried[Len(tried)].text # ""
    /\ \E k \in 1..2 : \E j \in (k + 1)..3 :
           /\ ValidMatches(input, k) # {}
           /\ tried[Len(tried)].text = AnyBlockAt(input, Least(ValidMatches(input, k)))
           /\ ValidMatches(input, j) # {}
           /\ Least(ValidMatches(input, j)) < Least(ValidMatches(input, k))
           /\ AnyBlockAt(input, Least(ValidMatches(input, j)))
                  # tried[Len(tried)].text

\* C6, as claimed: the text a tier returns for a range is the text under the
\* first encoding, in the order UTF-8, UTF-16, Latin-1, CP1252, under which the
\* range decodes and parses; and a range that is valid UTF-8 and valid Latin-1
\* with two different texts is returned as its UTF-8 text.
C6_Utf8WheneverItDecodes ==
    /\ JustRan(1) =>
           /\ tried[1].text = FirstValid(complete_xml_bytes(input), "")
           /\ (/\ tried[1].text # ""
               /\ decode_utf8(complete_xml_bytes(input)).ok
               /\ decode_utf8(complete_xml_bytes(input))
                      # decode_latin1(complete_xml_bytes(input)))
              => tried[1].text = decode_utf8(complete_xml_bytes(input)).text
    /\ JustRan(2) =>
           /\ tried[2].text = FirstValid(entry_block_bytes(input), SYNTHETIC_DECL)
           /\ (/\ tried[2].text # ""
               /\ decode_utf8(entry_block_bytes(input)).ok
               /\ decode_utf8(entry_block_bytes(input))
                      # decode_latin1(entry_block_bytes(input)))
              => tried[2].text = decode_utf8(entry_block_bytes(input)).text

\* C6, amended: the text a tier returns for a range is the text under the
\* first encoding, in the order UTF-8, UTF-16, Latin-1, CP1252, under which the
\* range decodes and parses; a range that is valid UTF-8 and valid Latin-1
\* with two different texts is returned as its UTF-8 text when that text
\* parses, and as its Latin-1 text when only that one parses.
C6_FirstEncodingThatParses ==
    /\ JustRan(1) =>
           /\ tried[1].text = FirstValid(complete_xml_bytes(input), "")
           /\ DecodesAndParses(complete_xml_bytes(input), "", 1)
                  => tried[1].text = decode_utf8(complete_xml_bytes(input)).text
    /\ JustRan(2) =>
           /\ tried[2].text = FirstValid(entry_block_bytes(input), SYNTHETIC_DECL)
           /\ DecodesAndParses(entry_block_bytes(input), SYNTHETIC_DECL, 1)
                  => tried[2].text = decode_utf8(entry_block_bytes(input)).text
           /\ (/\ ~DecodesAndParses(entry_block_bytes(input), SYNTHETIC_DECL, 1)
               /\ DecodesAndParses(entry_block_bytes(input), SYNTHETIC_DECL, 3))
                  => tried[2].text = entry_block_bytes(input)
    /\ AnyBlockRan =>
           (tried[Len(tried)].text # "" =>
               \E k \in 1..3 : \E p \in MatchStarts(GENERIC_PATTERNS[k], input) :
                   tried[Len(tried)].text =
                       SYNTHETIC_DECL
                       \o FirstValid(any_block_bytes(input, p), SYNTHETIC_DECL))

\* a tier returned the UTF-8 text of a range that is valid Latin-1 as well,
\* with another text that parses too
C6_Utf8Preferred ==
    /\ JustRan(2)
    /\ tried[2].text # ""
    /\ tried[2].text = decode_utf8(entry_block_bytes(input)).text
    /\ tried[2].text # decode_latin1(entry_block_bytes(input)).text
    /\ DecodesAndParses(entry_block_bytes(input), SYNTHETIC_DECL, 3)

\* C7: no tier raises, whatever the bytes: it returns a text or none, and the
\* search goes on.  read_from_file raises ValueError when, and only when, all
\* three tiers were called and returned no text; the empty input ends this way
\* and in no other error.  Any other error of read_from_file is raised after a
\* tier has returned a text, by the parsing or the building of the entry.
C7_NotFoundOnlyAfterAllTiers ==
    /\ call \in {"_find_complete_xml_document", "_find_entry_block",
                 "_find_any_xml_block"} =>
           /\ raised = ""
           /\ pc \in {call, "done"}
           /\ pc = "done" => Len(tried) = 1
    /\ (call = "read_from_file" /\ file_exists) =>
           /\ raised = "ValueError" =>
                  /\ Len(tried) = 3
                  /\ \A k \in 1..3 : tried[k].text = ""
           /\ raised \notin {"", "ValueError"} =>
                  /\ tried # <<>>
                  /\ tried[Len(tried)].text # ""
           /\ (Len(tried) = 3 /\ \A k \in 1..3 : tried[k].text = "") =>
                  \/ pc = "extracted" /\ raised = ""
                  \/ pc = "raised" /\ raised = "ValueError"
           /\ pc \in {"_find_entry_block", "_find_any_xml_block", "extracted"}
                  => raised = ""
           /\ input = "" =>
                  /\ pc \in {"read_from_file", "_find_complete_xml_document",
                             "_find_entry_block", "_find_any_xml_block",
                             "extracted", "raised"}
                  /\ raised \in {"", "ValueError"}

\* read_from_file of an empty file ended in ValueError after all three tiers
C7_EmptyInputNotFound ==
    /\ call = "read_from_file"
    /\ file_exists
    /\ input = ""
    /\ Len(tried) = 3
    /\ raised = "ValueError"

\* C8, as claimed: repairing a repaired text changes nothing, for the copy of
\* _repair_xml in the reader and for the copy in the JSON extractor.
C8_RepairIdempotent ==
    /\ Returned("_repair_xml") => _repair_xml(xml_content) = xml_content
    /\ Returned("XMLToJSONExtractor._repair_xml") =>
           XMLToJSONExtractor_repair_xml(xml_content) = xml_content

\* the length of the tag that starts at p: a declaration, a start tag, an
\* empty-element tag or an end tag; 0 when none starts there
TagLen(s, p) ==
    IF StartsWithAt(s, p, XML_DECL_PLAIN) THEN Len(XML_DECL_PLAIN)
    ELSE IF StartsWithAt(s, p, XML_DECL_UTF8) THEN Len(XML_DECL_UTF8)
    ELSE IF NextToken(s, p).kind \in {"open", "empty", "close"}
    THEN NextToken(s, p).next - p
    ELSE 0

\* the tags of s from position i on, a declaration without its encoding, and
\* the text of s from i on that lies outside the tags
RECURSIVE TagsFrom(_, _)
TagsFrom(s, i) ==
    LET p == SkipTo(s, {"<"}, i)
    IN  IF p > Len(s) THEN <<>>
        ELSE IF TagLen(s, p) = 0 THEN TagsFrom(s, p + 1)
        ELSE IF StartsWithAt(s, p, "<?xml")
        THEN <<XML_DECL_PLAIN>> \o TagsFrom(s, p + TagLen(s, p))
        ELSE <<Slice(s, p, p + TagLen(s, p) - 1)>> \o TagsFrom(s, p + TagLen(s, p))

RECURSIVE OutsideTags(_, _)
OutsideTags(s, i) ==
    LET p == SkipTo(s, {"<"}, i)
    IN  IF p > Len(s) THEN From(s, i)
        ELSE IF TagLen(s, p) = 0
        THEN Slice(s, i, p) \o OutsideTags(s, p + 1)
        ELSE Slice(s, i, p - 1) \o OutsideTags(s, p + TagLen(s, p))

\* every "&" of t starts one of the three entities, and t has no "<" or ">"
OnlyEntities(t) ==
    /\ \A p \in 1..Len(t) :
           SubSeq(t, p, p) = "&" =>
               \/ StartsWithAt(t, p, "&amp;")
               \/ StartsWithAt(t, p, "&lt;")
               \/ StartsWithAt(t, p, "&gt;")
    /\ CharSet(t) \cap {"<", ">"} = {}

\* C9, as claimed: after _repair_xml the tags of the input (start tags, end
\* tags, the declaration) are tags of the output again, and every "&", "<"
\* and ">" of the input outside the tags is in the output as its entity only.
C9_TagsRestored ==
    Returned("_repair_xml") =>
        /\ TagsFrom(xml_content, 1) = TagsFrom(input, 1)
        /\ OnlyEntities(OutsideTags(xml_content, 1))

\* C10: read_from_xml_string repairs at most once in a call, only after the
\* first parse failed, and parses exactly once more after the repair; when
\* the second parse fails too the call ends in an error and returns no entry.
\* The same holds of extract_from_xml_string.
C10_OneRepairThenError ==
    call \in PARSERS \cup {"read_from_file"} =>
        /\ repairs \in {0, 1}
        /\ parses = IF pc \in {"repair", "build", "done", "raised"}
                       /\ raised \notin {"ValueError", "FileNotFoundError"}
                    THEN repairs + 1 ELSE 0
        /\ (repairs = 1 /\ call \in PARSERS /\ ~is_bytes) =>
               /\ ~ET_fromstring(input)
               /\ xml_content = _repair_xml(input)
        /\ raised = "ParseError" =>
               /\ repairs = 1
               /\ ~ET_fromstring(xml_content)
        /\ pc = "raised" => entry = NONE
        /\ entry # NONE =>
               /\ pc = "done"
               /\ raised = ""
               /\ entry = xml_content
               /\ ET_fromstring(entry)

\* the second parse failed: the call ended in ParseError after one repair
C10_SecondParseFailed ==
    /\ call = "read_from_xml_string"
    /\ raised = "ParseError"
    /\ repairs = 1
    /\ parses = 2

\* the namespace of a tag, "" when it has none, and the name behind it
Namespace(tag) ==
    IF StartsWithAt(tag, 1, "{") /\ Contains(tag, "}")
    THEN Slice(tag, 2, FindFrom(tag, "}", 1) - 1)
    ELSE ""

LocalName(tag) ==
    IF Namespace(tag) = "" /\ ~StartsWithAt(tag, 1, "{}") THEN tag
    ELSE From(tag, Len(Namespace(tag)) + 3)

Atom == "http://www.w3.org/2005/Atom"
Vendor == "urn:schemas-autodesk-com:partatom"

NamedTitle(child) == lower(LocalName(child.tag)) = "title"

Kept(children, Skipped(_)) == SelectSeq(children, LAMBDA child : ~Skipped(child))

SkippedInGroup(child) == Namespace(child.tag) = Vendor \/ NamedTitle(child)

C12_GroupSkipsVendorAndTitle ==
    (pc = "done" /\ call \in GROUP_PARAMETERS) =>
        /\ Len(result) = Len(Kept(elem.children, SkippedInGroup))
        /\ \A i \in 1..Len(result) :
               /\ result[i].name = LocalName(Kept(elem.children, SkippedInGroup)[i].tag)
               /\ result[i].value = Kept(elem.children, SkippedInGroup)[i].text

\* a group whose first child is skipped for its name alone, in a namespace
\* that is not the vendor's, and whose second child made the one Parameter
C12_TitleSkippedOtherKept ==
    /\ pc = "done"
    /\ call \in GROUP_PARAMETERS
    /\ Len(elem.children) = 2
    /\ NamedTitle(elem.children[1])
    /\ Namespace(elem.children[1].tag) = Atom
    /\ Len(result) = 1
    /\ result[1].name = LocalName(elem.children[2].tag)

\* the attribute of a child, or what stands for a missing one
AttributeOr(child, key, missing) ==
    IF key \in DOMAIN child.attrib THEN child.attrib[key] ELSE missing

\* the children a method kept
KeptBy(method, children) ==
    IF method \in GROUP_PARAMETERS THEN Kept(children, SkippedInGroup)
    ELSE Kept(children, NamedTitle)

\* C13: every Parameter has the local name of its element as name (the tag
\* without "{namespace-uri}", a tag without it unchanged, never absent), the
\* attributes displayName, typeOfParameter and units or None for a missing
\* one, the attribute type or "custom" for a missing one, and the text of the
\* element as it is, None when there is none.
C13_ParameterFields ==
    (pc = "done" /\ call \in GROUP_PARAMETERS \cup PART_PARAMETERS) =>
        /\ Len(result) = Len(KeptBy(call, elem.children))
        /\ \A i \in 1..Len(result) :
            /\ result[i].name = LocalName(KeptBy(call, elem.children)[i].tag)
            /\ result[i].name \notin {NONE, ""}
            /\ CharSet(result[i].name) \cap {"{", "}"} = {}
            /\ result[i].display_name
                   = AttributeOr(KeptBy(call, elem.children)[i], "displayName", NONE)
            /\ result[i].type_of_parameter
                   = AttributeOr(KeptBy(call, elem.children)[i], "typeOfParameter", NONE)
            /\ result[i].units
                   = AttributeOr(KeptBy(call, elem.children)[i], "units", NONE)
            /\ result[i].type
                   = AttributeOr(KeptBy(call, elem.children)[i], "type", "custom")
            /\ result[i].value = KeptBy(call, elem.children)[i].text

\* a Parameter of an element in a namespace, without attributes and text,
\* and one of an element in none whose text has blanks and whose type is empty
C13_DefaultsAndVerbatimText ==
    /\ pc = "done"
    /\ call = "_get_parameters_from_group"
    /\ Len(result) = 2
    /\ elem.children[1].tag = "{" \o Atom \o "}Width"
    /\ result[1] = Parameter("Width", NONE, "custom", NONE, NONE, NONE)
    /\ result[2] = Parameter("Width", NONE, "", NONE, NONE, " 007 ")


\* the children of an element that have a tag
ChildrenNamed(e, tag) == SelectSeq(e.children, LAMBDA child : child.tag = tag)

\* the text of the first A:variationCount of the first A:family of the
\* document, NONE when there is no such element or no text in it
VariationText(root) ==
    IF ChildrenNamed(root, "{" \o Vendor \o "}family") = <<>> THEN NONE
    ELSE IF ChildrenNamed(Head(ChildrenNamed(root, "{" \o Vendor \o "}family")),
                          "{" \o Vendor \o "}variationCount") = <<>>
    THEN NONE
    ELSE Head(ChildrenNamed(Head(ChildrenNamed(root, "{" \o Vendor \o "}family")),
                            "{" \o Vendor \o "}variationCount")).text

\* a text without its blanks and underscores, and the number its digits
\* stand for
Bare(t) ==
    LET keep == {i \in 1..Len(t) : SubSeq(t, i, i) \notin {" ", "_"}}
        at == [k \in 1..Cardinality(keep) |->
                  CHOOSE i \in keep : Cardinality({j \in keep : j <= i}) = k]
    IN  Concat([k \in 1..Cardinality(keep) |-> SubSeq(t, at[k], at[k])])

RECURSIVE Power10(_)
Power10(n) == IF n = 0 THEN 1 ELSE 10 * Power10(n - 1)

DigitsValue(d) ==
    LET Term(i) == (FindFrom("0123456789", SubSeq(d, i, i), 1) - 1)
                   * Power10(Len(d) - i)
        Sum[i \in 0..Len(d)] == IF i = 0 THEN 0 ELSE Sum[i - 1] + Term(i)
    IN  Sum[Len(d)]

\* the digits of a text behind its sign
Unsigned(t) ==
    IF Bare(t) # "" /\ SubSeq(Bare(t), 1, 1) \in {"+", "-"} THEN From(Bare(t), 2)
    ELSE Bare(t)

\* the texts that are integers: a sign or none and then digits (of the texts
\* of the model, those with blanks have them around the digits, and those
\* with underscores have single ones between digits)
IsIntegerText(t) == Unsigned(t) # "" /\ CharSet(Unsigned(t)) \subseteq Digits

IntegerValue(t) ==
    IF SubSeq(Bare(t), 1, 1) = "-" THEN 0 - DigitsValue(Unsigned(t))
    ELSE DigitsValue(Unsigned(t))

\* C14: with an A:family in the document, variation_count is the integer
\* that the text of A:variationCount stands for ("12" gives 12), and 0 when
\* the element is absent, empty or no integer ("abc" gives 0); no call ends
\* in the ValueError of the conversion.
C14_VariationCountOrZero ==
    call \in FAMILY_METHODS =>
        /\ raised # "ValueError"
        /\ (pc = "done" /\ result # None) =>
               result.variation_count
                   = IF IsIntegerText(VariationText(elem))
                     THEN IntegerValue(VariationText(elem))
                     ELSE 0
        /\ (pc = "done" /\ VariationText(elem) = "12") => result.variation_count = 12
        /\ (pc = "done" /\ VariationText(elem) = "abc") => result.variation_count = 0

\* the reader made a family of a document whose A:variationCount is no
\* integer
C14_NotAnIntegerGivesZero ==
    /\ call = "_get_family"
    /\ pc = "done"
    /\ VariationText(elem) \in {"abc", "1.5", "+"}
    /\ result.variation_count = 0


\* the parts of the first A:family of the document
PartsOf(root) ==
    ChildrenNamed(Head(ChildrenNamed(root, "{" \o Vendor \o "}family")),
                  "{" \o Vendor \o "}part")

\* C19, as claimed: the reader's family is None exactly when the document
\* has no A:family; otherwise it is a Family with the attribute type, "user"
\* without one, and with one FamilyPart for each A:part in the order of the
\* document, each with its attribute type, "user" without one; and no call
\* ends in an error.
C19_OnePartForEachChild ==
    (call = "_get_family" /\ pc \in {"done", "raised"}) =>
        /\ raised = ""
        /\ (result = None) = (ChildrenNamed(elem, "{" \o Vendor \o "}family") = <<>>)
        /\ result # None =>
               /\ result.type
                      = AttributeOr(Head(ChildrenNamed(elem, "{" \o Vendor \o "}family")),
                                    "type", "user")
               /\ Len(result.parts) = Len(PartsOf(elem))
               /\ \A i \in 1..Len(result.parts) :
                      result.parts[i].type = AttributeOr(PartsOf(elem)[i], "type", "user")


\* timezone.utc, and the timezone of a whole number of minutes
UTC == [utcoffset |-> [days |-> 0, seconds |-> 0, microseconds |-> 0]]
Offset(minutes) ==
    [utcoffset |-> [days |-> IF minutes < 0 THEN -1 ELSE 0,
                    seconds |-> (minutes * 60) % 86400,
                    microseconds |-> 0]]

\* the timestamps of ISO 8601 among the texts: a calendar, week or ordinal
\* date, T, a time of day that may have a fraction, may be 24:00:00 and may
\* be a leap second, and Z, an offset or nothing
ISO8601 ==
    ("2024-01-15T10:30:00Z" :> datetime(2024, 1, 15, 10, 30, 0, 0, UTC))
    @@ ("2024-01-15T10:30:00+01:00"
            :> datetime(2024, 1, 15, 10, 30, 0, 0, Offset(60)))
    @@ ("2024-01-15T10:30:00-05:30"
            :> datetime(2024, 1, 15, 10, 30, 0, 0, Offset(-330)))
    @@ ("2024-01-15T10:30:00" :> datetime(2024, 1, 15, 10, 30, 0, 0, None))
    @@ ("2024-01-15T10:30:00.5Z"
            :> datetime(2024, 1, 15, 10, 30, 0, 500000, UTC))
    @@ ("20240115T103000Z" :> datetime(2024, 1, 15, 10, 30, 0, 0, UTC))
    @@ ("2024-W03-1T10:30:00Z" :> datetime(2024, 1, 15, 10, 30, 0, 0, UTC))
    @@ ("2024-015T10:30:00Z" :> datetime(2024, 1, 15, 10, 30, 0, 0, UTC))
    @@ ("2016-12-31T23:59:60Z" :> datetime(2016, 12, 31, 23, 59, 60, 0, UTC))
    @@ ("2024-01-15T24:00:00Z" :> datetime(2024, 1, 16, 0, 0, 0, 0, UTC))

\* the texts that are no date and time of ISO 8601 in any reading
Unparsable == {"not-a-date", "2024-02-30T10:30:00Z", " 2024-01-15T10:30:00Z"}

\* what datetime.fromisoformat of Python 3.11 makes of the texts it accepts,
\* each Z written as +00:00 before: not the ordinal date, the leap second or
\* the hour 24, but a date alone (midnight, no offset), a blank for the T, a
\* fraction of more than six digits (cut, not rounded) and a date with Z
\* (the offset is read as the time of day)
Accepted ==
    [text \in DOMAIN ISO8601 \ {"2024-015T10:30:00Z", "2016-12-31T23:59:60Z",
                                "2024-01-15T24:00:00Z"} |-> ISO8601[text]]
    @@ ("2024-01-15T10:30:00.1234567Z"
            :> datetime(2024, 1, 15, 10, 30, 0, 123456, UTC))
    @@ ("2024-01-15" :> datetime(2024, 1, 15, 0, 0, 0, 0, None))
    @@ ("2024-01-15 10:30:00Z" :> datetime(2024, 1, 15, 10, 30, 0, 0, UTC))
    @@ ("2024-01-15Z" :> datetime(2024, 1, 15, 0, 0, 0, 0, None))

\* the text of the element that the timestamp of a call is read from, NONE
\* without such an element: the first atom:updated of the entry, or the first
\* A:updated of the first A:design-file of the link
UpdatedText ==
    IF call = "_get_updated"
    THEN (IF ChildrenNamed(elem, "{" \o Atom \o "}updated") = <<>> THEN NONE
          ELSE Head(ChildrenNamed(elem, "{" \o Atom \o "}updated")).text)
    ELSE IF ChildrenNamed(Head(ChildrenNamed(elem, "{" \o Vendor \o "}design-file")),
                          "{" \o Vendor \o "}updated") = <<>>
    THEN NONE
    ELSE Head(ChildrenNamed(Head(ChildrenNamed(elem, "{" \o Vendor \o "}design-file")),
                            "{" \o Vendor \o "}updated")).text

\* the timestamp a call has returned
UpdatedField == IF call = "_get_updated" THEN result ELSE result.updated

\* a call that returned a timestamp
ReturnedUpdated ==
    /\ call \in {"_get_updated", "_get_design_file"}
    /\ pc = "done"
    /\ call = "_get_design_file" => result # None

\* C15, as claimed: for atom:updated of the entry and A:updated of a design
\* file alike, a text that is a timestamp of ISO 8601 gives that timestamp
\* (Z is the offset +00:00), and a missing element, an element without text
\* and a text that cannot be parsed give the time of the clock; no call ends
\* in an error.
C15_EveryISOTimestamp ==
    /\ call \in {"_get_updated", "_get_design_file"} => pc # "raised"
    /\ ReturnedUpdated =>
           /\ UpdatedText \in DOMAIN ISO8601 => UpdatedField = ISO8601[UpdatedText]
           /\ UpdatedText \in Unparsable \cup {NONE} => UpdatedField = now

\* C15, amended: the field is the timestamp of a text that
\* datetime.fromisoformat accepts once each Z is written +00:00, and the
\* time of the clock for a missing element, an element without text and every
\* other text, among them the ordinal date, the leap second and the hour 24
\* of ISO 8601; no call ends in an error.
C15_TimestampOrNow ==
    /\ call \in {"_get_updated", "_get_design_file"} => pc # "raised"
    /\ ReturnedUpdated =>
           UpdatedField = IF UpdatedText \in DOMAIN Accepted THEN Accepted[UpdatedText]
                          ELSE now

\* a design file's timestamp with Z was read, and an entry's text that is no
\* date gave the time of the clock
C15_ZuluRead ==
    /\ ReturnedUpdated
    /\ call = "_get_design_file"
    /\ UpdatedText = "2024-01-15T10:30:00Z"
    /\ UpdatedField = datetime(2024, 1, 15, 10, 30, 0, 0, UTC)


\* the text of the first child of an element that has a tag, "" without
\* such a child or without a text in it
FirstText(e, tag) ==
    IF ChildrenNamed(e, tag) = <<>> THEN ""
    ELSE IF Head(ChildrenNamed(e, tag)).text = NONE THEN ""
    ELSE Head(ChildrenNamed(e, tag)).text

\* a call of one of the two methods that make the categories has returned
ReturnedCategories ==
    /\ call \in {"_get_categories", "XMLToJSONExtractor._extract_categories"}
    /\ pc = "done"

\* C16, as claimed: every atom:category of the entry gives one Category, in
\* the order of the document, named by the text of its atom:term, and named
\* "" when it has no atom:term.
C16_CategoryForEachElement ==
    ReturnedCategories =>
        /\ Len(result) = Len(ChildrenNamed(elem, "{" \o Atom \o "}category"))
        /\ \A i \in 1..Len(result) :
               result[i].name
                   = FirstText(ChildrenNamed(elem, "{" \o Atom \o "}category")[i],
                               "{" \o Atom \o "}term")

\* the atom:category children that have an atom:term child
WithTerm(root) ==
    SelectSeq(ChildrenNamed(root, "{" \o Atom \o "}category"),
              LAMBDA c : ChildrenNamed(c, "{" \o Atom \o "}term") # <<>>)

\* C16, amended: every atom:category that has an atom:term child gives one
\* Category, in the order of the document, named by the text of its first
\* atom:term, and named "" when that term has no text; an atom:category
\* without an atom:term gives no Category.
C16_CategoryForEachTerm ==
    ReturnedCategories =>
        /\ Len(result) = Len(WithTerm(elem))
        /\ \A i \in 1..Len(result) :
               result[i] = [name |-> FirstText(WithTerm(elem)[i],
                                               "{" \o Atom \o "}term")]

\* a category without a term was left out, and the one after it, whose term
\* has no text, is named ""
C16_TermlessLeftOut ==
    /\ ReturnedCategories
    /\ Len(ChildrenNamed(elem, "{" \o Atom \o "}category")) = 2
    /\ ChildrenNamed(elem, "{" \o Atom \o "}category")[1].children = <<>>
    /\ result = <<[name |-> ""]>>

\* the A:taxonomy children that have an atom:term and an atom:label child
WithTermAndLabel(root) ==
    SelectSeq(ChildrenNamed(root, "{" \o Vendor \o "}taxonomy"),
              LAMBDA t : /\ ChildrenNamed(t, "{" \o Atom \o "}term") # <<>>
                         /\ ChildrenNamed(t, "{" \o Atom \o "}label") # <<>>)

\* C17: _get_taxonomies gives one Taxonomy for each A:taxonomy that has both
\* an atom:term and an atom:label child, in the order of the document, with
\* the texts of the two ("" for one without text); an A:taxonomy without
\* either child gives nothing.
C17_TaxonomyWhenBoth ==
    (call = "_get_taxonomies" /\ pc = "done") =>
        /\ Len(result) = Len(WithTermAndLabel(elem))
        /\ \A i \in 1..Len(result) :
               result[i] = [term |-> FirstText(WithTermAndLabel(elem)[i],
                                               "{" \o Atom \o "}term"),
                            label |-> FirstText(WithTermAndLabel(elem)[i],
                                                "{" \o Atom \o "}label")]

\* of two taxonomies the one with a term alone was left out and the one with
\* both was kept
C17_TermAloneLeftOut ==
    /\ call = "_get_taxonomies"
    /\ pc = "done"
    /\ Len(ChildrenNamed(elem, "{" \o Vendor \o "}taxonomy")) = 2
    /\ Len(ChildrenNamed(elem, "{" \o Vendor \o "}taxonomy")[1].children) = 1
    /\ result = <<[term |-> "adsk:revit", label |-> "Autodesk Revit"]>>

\* the atom:link children of the entry
LinksOf(root) == ChildrenNamed(root, "{" \o Atom \o "}link")

\* the A:design-file children of a link
DesignFilesOf(link) == ChildrenNamed(link, "{" \o Vendor \o "}design-file")

\* C18: _get_links gives one Link for each atom:link, in the order of the
\* document, with the attributes rel, type and href ("" for a missing one);
\* its design_file is None exactly when the link has no A:design-file child,
\* and has otherwise the texts of the A:title, A:product and
\* A:product-version of that child as name, product and product_version ("" for
\* a missing one).
C18_LinkForEachElement ==
    (call = "_get_links" /\ pc = "done") =>
        /\ Len(result) = Len(LinksOf(elem))
        /\ \A i \in 1..Len(result) :
               /\ result[i].rel = AttributeOr(LinksOf(elem)[i], "rel", "")
               /\ result[i].type = AttributeOr(LinksOf(elem)[i], "type", "")
               /\ result[i].href = AttributeOr(LinksOf(elem)[i], "href", "")
               /\ (result[i].design_file = None)
                      = (DesignFilesOf(LinksOf(elem)[i]) = <<>>)
               /\ result[i].design_file # None =>
                      /\ result[i].design_file.name
                             = FirstText(Head(DesignFilesOf(LinksOf(elem)[i])),
                                         "{" \o Vendor \o "}title")
                      /\ result[i].design_file.product
                             = FirstText(Head(DesignFilesOf(LinksOf(elem)[i])),
                                         "{" \o Vendor \o "}product")
                      /\ result[i].design_file.product_version
                             = FirstText(Head(DesignFilesOf(LinksOf(elem)[i])),
                                         "{" \o Vendor \o "}product-version")

\* a link without attributes and without a design file came before a link
\* with all of them
C18_BareLinkThenFullLink ==
    /\ call = "_get_links"
    /\ pc = "done"
    /\ Len(result) = 2
    /\ result[1] = [rel |-> "", type |-> "", href |-> "", design_file |-> None]
    /\ result[2].href = "."
    /\ result[2].design_file # None
    /\ result[2].design_file.product_version = "2024"


\* C20: an entry that the extraction made, saved and loaded again, is the
\* same entry in name, id, updated, categories, links with their design
\* files, features with their groups and parameters, and family with its
\* parts, and has the empty list for taxonomies; neither save nor load ends
\* in an error.
C20_RoundTrip ==
    call = "RevitFamilyJSONRepository.save" =>
        /\ pc # "raised"
        /\ pc = "done" =>
               /\ loaded.taxonomies = <<>>
               /\ \A field \in DOMAIN saved \ {"taxonomies"} :
                      loaded[field] = saved[field]

\* an entry with a taxonomy, a title with a quote and a backslash, a time
\* of the clock with microseconds, a design file with an offset, parameters
\* without values and a family with two parts was saved and loaded
C20_FullEntryLoaded ==
    /\ call = "RevitFamilyJSONRepository.save"
    /\ pc = "done"
    /\ saved.taxonomies # <<>>
    /\ saved.name = "Door \"A\" C:\\new\t1\n"
    /\ saved.updated = now
    /\ Len(saved.links) = 2
    /\ saved.links[2].design_file.updated.tzinfo = Offset(60)
    /\ Len(saved.features) = 2
    /\ saved.features[1].groups[1].parameters[2].value = NONE
    /\ saved.family # None
    /\ Len(saved.family.parts) = 2
    /\ loaded.family.parts[2].parameters[1].units = "mm"
    /\ loaded.updated = now


\* C21: save writes the taxonomies of the entry into the JSON document, and
\* the entry that load returns of that document has the empty list for
\* taxonomies.
C21_TaxonomiesWritten ==
    (call = "RevitFamilyJSONRepository.save" /\ json_file # None) =>
        /\ "taxonomies" \in DOMAIN json_file
        /\ pc = "done" => loaded.taxonomies = <<>>

\* what the names of an entry's parameters hold of the two bracketed
\* namespaces: the parameters of the groups and those of the parts, each
\* with the number of the two that are in its name
BracketedIn(name) ==
    Cardinality({uri \in {Atom, Vendor} : Contains(name, "{" \o uri \o "}")})

GroupParametersOf(e) ==
    chain([i \in 1..Len(e.features) |->
              chain([j \in 1..Len(e.features[i].groups) |->
                        e.features[i].groups[j].parameters])])

PartParametersOf(e) ==
    IF e.family = None THEN <<>>
    ELSE chain([i \in 1..Len(e.family.parts) |-> e.family.parts[i].parameters])

RECURSIVE sum(_)
sum(numbers) == IF numbers = <<>> THEN 0 ELSE Head(numbers) + sum(Tail(numbers))

Matches(e) ==
    sum([i \in 1..Len(GroupParametersOf(e) \o PartParametersOf(e)) |->
            BracketedIn((GroupParametersOf(e) \o PartParametersOf(e))[i].name)])

\* C22: _validate_cleaned_data leaves the entry as it is and ends without an
\* exception, for an entry with a bracketed namespace in a parameter's name
\* as for one without; it logs one warning for each match; and what
\* read_from_xml_string returns is the entry it built before the validation.
C22_ValidatorOnlyWarns ==
    [][/\ pc = "_validate_cleaned_data" =>
              /\ built' = built
              /\ pc' # "raised"
              /\ Len(warnings') = Len(warnings) + Matches(built)
       /\ pc = "return entry" => result' = built /\ built' = built]_vars

\* the validator was called with an entry whose group has a parameter with
\* both bracketed namespaces in its name and whose part has one with one of
\* them, and logged three warnings
C22_WarnedThreeTimes ==
    /\ call = "_validate_cleaned_data"
    /\ pc = "done"
    /\ Matches(built) = 3
    /\ Len(warnings) = 3
    /\ result = NONE

\* C30: no parameter of an entry that read_from_xml_string made of a document
\* has a bracketed known namespace in its name, and the validator logs no
\* warning for it.
C30_NoBracketedNamespace ==
    call = "read_from_xml_string: root" =>
        /\ built # None => Matches(built) = 0
        /\ warnings = <<>>

\* an entry was returned whose group has two parameters, made of an element
\* in the namespace of Atom and of one in a namespace whose URI begins with
\* a brace
C30_NamespacedChildrenRead ==
    /\ call = "read_from_xml_string: root"
    /\ pc = "done"
    /\ elem \in NamedRoots
    /\ Len(elem.children[1].children[1].children[1].children) = 2
    /\ elem.children[1].children[1].children[1].children[1].tag
           = "{http://www.w3.org/2005/Atom}Width"
    /\ elem.children[1].children[1].children[1].children[2].tag
           = "{{urn:schemas-autodesk-com:partatom}Depth"
    /\ result.features[1].groups[1].parameters[1].name = "Width"
    /\ result.features[1].groups[1].parameters[2].name = "Depth"

\* C28: read_from_file never reaches the repair: the text that the locator
\* returns parses at the first parse of read_from_xml_string, and the call
\* ends only with an entry, with FileNotFoundError or with ValueError.
C28_RepairNeverReached ==
    call = "read_from_file" =>
        /\ repairs = 0
        /\ pc # "repair"
        /\ parses \in {0, 1}
        /\ pc = "raised" => raised \in {"FileNotFoundError", "ValueError"}
        /\ pc = "done" => result = read_entry(ET_root(xml_content), now).value

\* C27: the two pipelines agree.  For every document and a fixed clock, the
\* entry that the factory makes of the JSON extractor's data equals the entry
\* that read_from_xml_string returns, in every field, and the one raises
\* exactly when the other does (the extractor and the factory raise nowhere).
C27_PipelinesAgree ==
    (call = PIPELINES /\ pc \in {"done", "raised"}) =>
        /\ pc = "done"
        /\ result = created

\* the updated texts in the JSON extractor's data: what isoformat() wrote of
\* the timestamps of the documents and of the clock's time; timestamps of
\* ISO 8601 that datetime.fromisoformat accepts
WrittenByIsoformat ==
    {"2024-01-15T10:30:00+00:00", "2024-01-15T10:30:00-05:30",
     "2024-01-15T10:30:00.500000", "2025-06-01T12:00:00.250000"}

\* a required key of the data is missing
KeyMissing == \E key \in {"name", "id", "updated"} : key \notin DOMAIN data

\* the name of the data is empty or made of whitespace
BlankName ==
    \A i \in 1..Len(data.name) : SubSeq(data.name, i, i) \in {" ", "\t", "\n"}

\* a call of the validated factory has ended
ValidatedEnded == call = VALIDATED /\ pc \in {"done", "raised"}

\* it ended with ValidationError and returned nothing
Rejected == pc = "raised" /\ raised = "ValidationError" /\ result = NONE

\* it returned what create_revit_family_entry returns
Created == pc = "done" /\ result = create_revit_family_entry(data, now)

\* C26, as claimed: the validated factory raises ValidationError whenever a
\* required key is missing, the name is empty or whitespace, or the updated
\* text is no timestamp of ISO 8601; for all other data it returns the entry
\* that create_revit_family_entry returns.
C26_RejectedOrCreatedISO ==
    ValidatedEnded =>
        IF KeyMissing THEN Rejected
        ELSE IF data.id = NONE THEN TRUE
        ELSE IF BlankName \/ data.updated \in Unparsable \cup {NONE, ""} THEN Rejected
        ELSE data.updated \in DOMAIN ISO8601 \cup WrittenByIsoformat => Created

\* C26, amended: the validated factory raises ValidationError when one of
\* name, id and updated is missing or is no str, when the name is empty or
\* whitespace, and when datetime.fromisoformat rejects the updated text with
\* each Z written +00:00 (as it rejects the ordinal date, the leap second and
\* the hour 24 of ISO 8601); for all other data it returns the entry that
\* create_revit_family_entry returns.  The JSON extractor's data of a
\* document without atom:title is rejected.
C26_RejectedOrCreated ==
    ValidatedEnded =>
        IF KeyMissing THEN Rejected
        ELSE IF NONE \in {data.name, data.id, data.updated} THEN Rejected
        ELSE IF BlankName THEN Rejected
        ELSE IF data.updated \in DOMAIN Accepted \cup WrittenByIsoformat THEN Created
        ELSE Rejected

\* the data that the JSON extractor makes of a document without atom:title,
\* with every key and a timestamp, was rejected
C26_UntitledRejected ==
    /\ ValidatedEnded
    /\ Rejected
    /\ DOMAIN data = {"name", "id", "updated", "taxonomies", "categories",
                      "links", "features", "family"}
    /\ data.name = ""
    /\ data.updated \in WrittenByIsoformat
    /\ \E root \in PlainRoots :
           /\ ChildrenNamed(root, "{" \o Atom \o "}title") = <<>>
           /\ data = _extract_entry_data(root, now)

\* the text of bytes under the first of UTF-8, UTF-16 and Latin-1 that
\* decodes them
FirstDecodable(b) ==
    IF decode_utf8(b).ok THEN decode_utf8(b).text
    ELSE IF decode_utf16(b).ok THEN decode_utf16(b).text
    ELSE decode_latin1(b).text

\* C29: given bytes, read_from_xml_string and extract_from_xml_string go on
\* with the text under the first of UTF-8, UTF-16, Latin-1 and CP1252 that
\* decodes the bytes, whether that text parses or not; Latin-1 decodes every
\* byte sequence, so that CP1252 is never chosen and the ValueError for bytes
\* that nothing decodes is never raised.
C29_FirstDecodingUsed ==
    call \in PARSERS =>
        /\ raised # "ValueError"
        /\ decode_latin1(input).ok
        /\ (is_bytes /\ pc = "parse") => xml_content = FirstDecodable(input)

\* bytes that are no UTF-8 and no UTF-16 were decoded as Latin-1, where CP1252
\* has another text for them
C29_Latin1NotCP1252 ==
    /\ call \in PARSERS
    /\ is_bytes
    /\ pc = "parse"
    /\ ~decode_utf8(input).ok
    /\ ~decode_utf16(input).ok
    /\ xml_content = decode_latin1(input).text
    /\ xml_content # decode_cp1252(input).text

\* the parameters of the groups of a name among the groups from the k-th on
RECURSIVE OfGroupsNamed(_, _, _)
OfGroupsNamed(groups, k, name) ==
    IF k > Len(groups) THEN <<>>
    ELSE (IF groups[k].name = name THEN groups[k].parameters ELSE <<>>)
         \o OfGroupsNamed(groups, k + 1, name)

\* the same among the features from the k-th on
RECURSIVE OfFeaturesFrom(_, _, _)
OfFeaturesFrom(features, k, name) ==
    IF k > Len(features) THEN <<>>
    ELSE OfGroupsNamed(features[k].groups, 1, name)
         \o OfFeaturesFrom(features, k + 1, name)

\* C25: get_parameters_by_group returns the parameters of every group of the
\* entry's features whose name is group_name, in the order of the features,
\* of their groups and of the groups' parameters, the empty list when no
\* group has the name; it raises for no entry.
C25_ParametersOfNamedGroups ==
    (call = BY_GROUP /\ pc \in {"done", "raised"}) =>
        /\ pc = "done"
        /\ result = OfFeaturesFrom(family_entry.features, 1, group_name)

\* the file at a place of the list failed: a call raised for it, and the file
\* was neither skipped nor only listed by a dry run before that call
FailedAt(i) ==
    \/ batch.rfa_files[i].raised_by = "determine_output_path"
    \/ /\ batch.rfa_files[i].raised_by = "extract_and_save"
       /\ batch.force \/ ~batch.rfa_files[i].json_exists
       /\ ~batch.dry_run

Alone(text) ==
    IF ET_fromstring(text) THEN read_entry(ET_root(text), now)
    ELSE IF ET_fromstring(_repair_xml(text))
    THEN read_entry(ET_root(_repair_xml(text)), now)
    ELSE Raises("ParseError")

\* C23: calls of the extraction on different inputs that run in parallel, in
\* any interleaving of their steps, share no mutable state: each call ends as
\* it ends when it runs alone, with the same entry or the same exception, and
\* no call modifies the namespace table.
C23_TasksShareNothing ==
    /\ namespaces = NAMESPACES
    /\ call = PARALLEL =>
           \A task \in Tasks :
               /\ tasks[task].pc \in {"done", "raised"} =>
                      tasks[task].outcome = Alone(tasks[task].argument)
               /\ tasks[task].pc \notin {"done", "raised"} =>
                      tasks[task].outcome = None

\* the steps of two calls alternated: the first repaired its text and returned
\* its entry, the second returned another entry
C23_StepsAlternated ==
    /\ call = PARALLEL
    /\ schedule = <<1, 2, 1, 2, 1, 2, 1>>
    /\ tasks[1].pc = "done"
    /\ tasks[2].pc = "done"
    /\ ~ET_fromstring(tasks[1].argument)
    /\ tasks[1].outcome.value.name = "a & b"
    /\ tasks[2].outcome.value # tasks[1].outcome.value


====
